---- MODULE Spec2Model ----
(***************************************************************************)
(* T3N Mail: the multi-provider mailbox manager (TempMailManager), its     *)
(* three provider adapters and the legacy facade, as a state machine.      *)
(*                                                                         *)
(* JavaScript runs one task at a time: a handler runs from the event that  *)
(* starts it (a call from the UI, a timer, a network response) up to the   *)
(* next await on the network.  Each action below is one such run.  A       *)
(* request made through fetchWithRetry is one wait whose outcome (a        *)
(* response or a failure) the environment chooses.                         *)
(*                                                                         *)
(* Strings the code inspects (addresses, logins, domains) are sequences of *)
(* one-character strings; the empty sequence stands for null, undefined    *)
(* and the empty string, which the code never tells apart (all falsy).     *)
(***************************************************************************)
EXTENDS Integers, Sequences, FiniteSets, TLC

(***************************************************************************)
(* Bounds of the model.                                                    *)
(***************************************************************************)
MaxCalls == 2
MaxReads == 1
MaxLists == 2
MaxTicks == 2
MaxPolls == 2

(***************************************************************************)
(* CONFIG                                                                  *)
(***************************************************************************)
MAX_RETRIES == 3
RETRY_DELAY == 1000
RETRY_MULTIPLIER == 2
DEFAULT_REFRESH_INTERVAL == 3000
MIN_REFRESH_INTERVAL == 2000
MAX_REFRESH_INTERVAL == 10000
CACHE_DURATION == 2000
DOMAIN_FRESHNESS == 60000
\* the step of the clock: half the cache window, so that calls fall inside it,
\* on its end and beyond it
TickMs == CACHE_DURATION \div 2
\* Date.now() when the page loads: farther from 0 than every window
StartTime == DOMAIN_FRESHNESS + CACHE_DURATION

(***************************************************************************)
(* Character classes of the email-shape regular expression.                *)
(***************************************************************************)
Lower == {"a","b","c","d","e","f","g","h","i","j","k","l","m",
          "n","o","p","q","r","s","t","u","v","w","x","y","z"}
Upper == {"A","B","C","D","E","F","G","H","I","J","K","L","M",
          "N","O","P","Q","R","S","T","U","V","W","X","Y","Z"}
Digit == {"0","1","2","3","4","5","6","7","8","9"}
Alpha == Lower \cup Upper
LocalChars == Alpha \cup Digit \cup {".", "_", "%", "+", "-"}
DomainChars == Alpha \cup Digit \cup {".", "-"}

NoStr == <<>>

\* /^[a-zA-Z0-9._%+-]+@[a-zA-Z0-9.-]+\.[a-zA-Z]{2,}$/.test(email)
isValidEmail(s) ==
    \E i \in 1..Len(s), j \in 1..Len(s) :
        /\ i > 1
        /\ s[i] = "@"
        /\ \A k \in 1..(i-1) : s[k] \in LocalChars
        /\ j > i + 1
        /\ s[j] = "."
        /\ \A k \in (i+1)..(j-1) : s[k] \in DomainChars
        /\ Len(s) - j >= 2
        /\ \A k \in (j+1)..Len(s) : s[k] \in Alpha

\* `${login}@${domain}`
Address(login, domain) == login \o <<"@">> \o domain

\* Positions of "@" in s.
AtPositions(s) == {i \in 1..Len(s) : s[i] = "@"}

Min(S) == CHOOSE x \in S : \A y \in S : x <= y

\* const [login, domain] = email_addr.split('@'): the first two pieces.
SplitLogin(s) ==
    IF AtPositions(s) = {} THEN s ELSE SubSeq(s, 1, Min(AtPositions(s)) - 1)

SplitDomain(s) ==
    IF AtPositions(s) = {} THEN NoStr
    ELSE LET a == Min(AtPositions(s))
             rest == {i \in AtPositions(s) : i > a}
             e == IF rest = {} THEN Len(s) ELSE Min(rest) - 1
         IN SubSeq(s, a + 1, e)

(***************************************************************************)
(* Values the environment supplies.                                        *)
(***************************************************************************)
\* generateRandomString(12): a letter, then letters and digits.  Shortened to two
\* characters; the n-th mailbox call draws the n-th login, so that logins are fresh.
DigitChars == <<"1","2","3","4","5","6","7","8","9">>
LoginOf(n) == <<"k", DigitChars[n]>>

SecmailCom == <<"1","s","e","c","m","a","i","l",".","c","o","m">>
\* the domain list getDomains falls back to (its first entry)
HardcodedDomains == << SecmailCom >>

\* domains a remote may list: one that yields a well-formed address, one that does not
GoodDomain == <<"x",".","i","o">>
BadDomain == <<"x">>
RemoteDomains == {GoodDomain, BadDomain}

\* JSON values the getDomainList endpoint may answer with
Arr(items) == [kind |-> "array", items |-> items]
DomainListValues ==
    { Arr(<<>>), Arr(<<GoodDomain>>), Arr(<<BadDomain>>),
      [kind |-> "object", items |-> <<>>] }

\* x.length === 0 and x.length > 0 (an object has no length: both false)
LengthIsZero(d) == d.kind # "object" /\ Len(d.items) = 0
LengthPositive(d) == d.kind # "object" /\ Len(d.items) > 0
Elements(q) == {q[i] : i \in 1..Len(q)}

ProviderOrder == <<"secmail", "mailtm", "guerrilla">>
\* the message ids a caller asks for ("" stands for no id)
MsgIds == {"m1"}
NoId == ""
\* Who calls the mailbox operations: the page (initEmailService, the refresh
\* button, the facade's user) and the countdown timer, which calls refreshEmail().
Callers == {"page", "timer"}
ReadIds == 1..MaxReads
ListIds == 1..MaxLists


(***************************************************************************)
(* State.                                                                  *)
(***************************************************************************)
VARIABLES
    now,              \* Date.now()
    currentProvider,  \* TempMailManager: name of the pinned provider, "none" for null
    email,            \* TempMailManager.email
    login,            \* TempMailManager.login
    domain,           \* TempMailManager.domain
    messages,         \* TempMailManager.messages: the last normalized listing
    refreshInterval,  \* TempMailManager.refreshInterval: 0 for null, else the timer handle
    messageCache,     \* TempMailManager.messageCache: message id -> normalized detail
    lastRefresh,      \* TempMailManager.lastRefresh
    stats,            \* TempMailManager.stats
    secmail,          \* SecMailProvider: domains, lastHealthCheck
    mailtm,           \* MailTmProvider: token
    guerrilla,        \* GuerrillaMailProvider: sidToken
    timers,           \* the interval timers armed by setInterval and not yet cleared
    mtask,            \* calls of initialize/createEmail/refreshEmail in flight
    gtask,            \* calls of getMessage in flight
    ltask,            \* calls of getMessages in flight
    calls,            \* number of mailbox calls made so far
    fetchedFor,       \* history: the ids a getMessage request was made for since
                      \* the active address last changed
    prevList,         \* history: the getMessages call that returned last
    rq,               \* the call of fetchWithRetry in flight
    cbLog,            \* history: how each call of the poll's callback ended
    nz,               \* the record last normalized, and its normalized forms
    facade,           \* SecMailAPI: email, login, domain
    issuer,           \* history: the provider pinned when the active address was set
    ui                \* main.js: how far the page has loaded, and
                      \* elements.refreshEmail.disabled

mgrVars == <<currentProvider, email, login, domain, messages, refreshInterval,
             messageCache, lastRefresh, stats>>
provVars == <<secmail, mailtm, guerrilla>>
vars == <<now, mgrVars, provVars, timers, mtask, gtask, ltask, calls, fetchedFor,
          prevList, rq, cbLog, nz, facade, issuer, ui>>

EmptyCache == [i \in {} |-> 0]

\* A call slot at rest, before its first call.
IdleTask ==
    [pc |-> "idle", kind |-> "none", idx |-> 0, lg |-> NoStr,
     attempts |-> <<>>,     \* history: the providers whose createEmail() was called
     outcomes |-> <<>>,     \* history: how each of them answered
     probes |-> <<>>,       \* history: what each checkHealth() returned
     pinned0 |-> "none",    \* history: the pinned provider at the call
     timer0 |-> 0,          \* history: the timer handle at the call
     thru |-> FALSE,        \* history: the call was made through SecMailAPI
     domCheck |-> "none",   \* history: the checkHealth() of secmail's getDomains():
                            \* "skipped", "ok" or "failed"
     doms |-> <<>>,         \* history: the list getDomains() returned
     how |-> "none", by |-> "none"]

\* A getMessage call slot at rest.  via and box are the provider and the mailbox
\* of the request in flight; ret is what the call returned (<<>> for null,
\* <<detail>> otherwise).
IdleRead == [pc |-> "idle", id |-> NoId, via |-> "none", box |-> NoStr,
             fetched |-> FALSE, ret |-> <<>>]

\* A getMessages call slot at rest.  src tells who calls ("manual" for the page,
\* "poll" for the timer's callback); at tells when it was called; out how it ended ("cached", "empty", "fetched"
\* or "failed").
IdleList == [pc |-> "idle", src |-> "none", via |-> "none", box |-> NoStr,
             at |-> 0, out |-> "none", ret |-> <<>>]

\* No fetchWithRetry call in flight.  retries is the argument of the running
\* invocation; timeout tells whether its setTimeout is armed; ownSignal whether
\* the caller passed a signal of its own in options, aborted whether it has
\* aborted that signal.
IdleRequest ==
    [pc |-> "idle", retries |-> 0, timeout |-> FALSE, ownSignal |-> FALSE,
     aborted |-> FALSE,
     retries0 |-> 0,        \* history: the retries argument of the call
     attempts |-> 0,        \* history: the number of fetch() calls made
     fails |-> <<>>,        \* history: how each failed attempt failed
     delays |-> <<>>,       \* history: the sleeps made, in ms
     err |-> "none"]        \* the error the call threw

\* new TempMailManager(), with its three providers
Init ==
    /\ now = StartTime
    /\ currentProvider = "none"
    /\ email = NoStr
    /\ login = NoStr
    /\ domain = NoStr
    /\ messages = <<>>
    /\ refreshInterval = 0
    /\ messageCache = EmptyCache
    /\ lastRefresh = 0
    /\ stats = [emailsCreated |-> 0, messagesReceived |-> 0, providerSwitches |-> 0]
    /\ secmail = [domains |-> Arr(<<>>), lastHealthCheck |-> 0]
    /\ mailtm = [token |-> NoStr]
    /\ guerrilla = [sidToken |-> NoStr]
    /\ timers = {}
    /\ mtask = [t \in Callers |-> IdleTask]
    /\ gtask = [g \in ReadIds |-> IdleRead]
    /\ ltask = [l \in ListIds |-> IdleList]
    /\ calls = 0
    /\ fetchedFor = {}
    /\ prevList = [at |-> 0, ret |-> <<>>, out |-> "none"]
    /\ rq = IdleRequest
    /\ cbLog = <<>>
    /\ nz = <<>>
    /\ facade = [email |-> NoStr, login |-> NoStr, domain |-> NoStr]
    /\ issuer = "none"
    /\ ui = [phase |-> "fresh", disabled |-> FALSE]

\* The manager's fields as one value, for the operators that compute a handler's effect.
Mgr ==
    [currentProvider |-> currentProvider, email |-> email, login |-> login,
     domain |-> domain, messages |-> messages, refreshInterval |-> refreshInterval,
     messageCache |-> messageCache, lastRefresh |-> lastRefresh, stats |-> stats]

\* The manager's fields become those of m, set by a step after which the
\* active address counts as issued by provider who.
SetMgrBy(m, who) ==
    /\ currentProvider' = m.currentProvider
    /\ email' = m.email
    /\ login' = m.login
    /\ domain' = m.domain
    /\ messages' = m.messages
    /\ refreshInterval' = m.refreshInterval
    /\ messageCache' = m.messageCache
    /\ lastRefresh' = m.lastRefresh
    /\ stats' = m.stats
    /\ fetchedFor' = IF m.email = email THEN fetchedFor ELSE {}
    /\ issuer' = who

SetMgr(m) == SetMgrBy(m, IF m.email = email THEN issuer ELSE m.currentProvider)

(***************************************************************************)
(* SecMailProvider                                                         *)
(***************************************************************************)
\* A response of a request: ok = FALSE when fetchWithRetry or response.json() threw.
FailedDomainList == [ok |-> FALSE, data |-> Arr(<<>>)]
DomainListResponses ==
    {FailedDomainList} \cup {[ok |-> TRUE, data |-> d] : d \in DomainListValues}

\* checkHealth(): the provider after the response, and the value returned.
SecmailCheckHealth(sm, resp, t) ==
    IF resp.ok
    THEN LET h == resp.data.kind = "array" /\ Len(resp.data.items) > 0
         IN [sm |-> [domains |-> resp.data, lastHealthCheck |-> t], healthy |-> h]
    ELSE [sm |-> sm, healthy |-> FALSE]

\* getDomains(): does it call checkHealth() first?
SecmailNeedsCheck(sm, t) ==
    LengthIsZero(sm.domains) \/ t - sm.lastHealthCheck > DOMAIN_FRESHNESS

\* The list returned, were a cached list never returned.
SecmailDomainsHardcoded(sm) == HardcodedDomains

\* getDomains(): the list returned
SecmailDomains(sm) ==
    IF LengthPositive(sm.domains) THEN sm.domains.items ELSE HardcodedDomains

\* createEmail(): { login, domain, email } for a random login and a random listed domain
SecmailResult(lg, dm) == [login |-> lg, domain |-> dm, email |-> Address(lg, dm)]

(***************************************************************************)
(* TempMailManager.createEmail: the walk over the providers                *)
(***************************************************************************)
\* The acceptance, were it to leave the pinned provider alone.
AcceptResultKeepPinned(m, p, res) ==
    [m EXCEPT !.email = res.email,
              !.login = res.login,
              !.domain = res.domain,
              !.messages = <<>>,
              !.messageCache = EmptyCache,
              !.stats.emailsCreated = @ + 1]

\* The acceptance, were it to leave the message cache alone.
AcceptResultKeepCache(m, p, res) ==
    [m EXCEPT !.currentProvider = p,
              !.email = res.email,
              !.login = res.login,
              !.domain = res.domain,
              !.messages = <<>>,
              !.stats.emailsCreated = @ + 1]

\* lines 389-398: the provider's result is accepted
AcceptResult(m, p, res) ==
    [m EXCEPT !.currentProvider = p,
              !.email = res.email,
              !.login = res.login,
              !.domain = res.domain,
              !.messages = <<>>,
              !.messageCache = EmptyCache,
              !.stats.emailsCreated = @ + 1]

\* lines 400-404: the provider's createEmail() threw
CountFailure(m) == [m EXCEPT !.stats.providerSwitches = @ + 1]

\* The local address, were the pinned provider left as it is.
SyntheticFallbackKeepPinned(m, lg) ==
    [m EXCEPT !.login = lg,
              !.domain = SecmailCom,
              !.email = Address(lg, SecmailCom)]

\* lines 407-414: the locally generated address
SyntheticFallback(m, lg) ==
    [m EXCEPT !.login = lg,
              !.domain = SecmailCom,
              !.email = Address(lg, SecmailCom),
              !.currentProvider = "secmail"]

\* line 388: result && result.email && isValidEmail(result.email)
ResultAccepted(res) == res.email # NoStr /\ isValidEmail(res.email)

\* The provider the loop turns to after the one at index i (0 when it was the last).
NextIndex(i) == IF i < Len(ProviderOrder) THEN i + 1 ELSE 0

\* The provider at tk.idx has answered (threw, or returned res): the rest of the
\* loop body, and the loop's next step.
AttemptDone(m, tk0, threw, res) ==
    LET p == ProviderOrder[tk0.idx]
        o == IF threw THEN "threw" ELSE IF ResultAccepted(res) THEN "valid" ELSE "invalid"
        tk == [tk0 EXCEPT !.outcomes = Append(@, o)]
    IN
    IF ~threw /\ ResultAccepted(res)
    THEN [m |-> AcceptResult(m, p, res),
          t |-> [tk EXCEPT !.pc = "done", !.how = "adapter", !.by = p]]
    ELSE LET m1 == IF threw THEN CountFailure(m) ELSE m IN
         IF NextIndex(tk.idx) # 0
         THEN [m |-> m1,
               t |-> [tk EXCEPT !.pc = "attempt", !.idx = NextIndex(tk.idx),
                                !.attempts = Append(@, ProviderOrder[NextIndex(tk.idx)])]]
         ELSE [m |-> SyntheticFallback(m1, tk.lg),
               t |-> [tk EXCEPT !.pc = "done", !.how = "synthetic", !.by = "none"]]

\* The walk, were it to begin at the pinned provider.
FirstIndexAtPinned(m) ==
    IF m.currentProvider = "mailtm" THEN 2
    ELSE IF m.currentProvider = "guerrilla" THEN 3 ELSE 1

\* The index the loop of createEmail() starts at (line 379: the providers in
\* the order of the literal, whatever is pinned).
FirstIndex(m) == 1

\* The loop is entered: secmail.createEmail() is called.  It waits for the
\* network only when getDomains() calls checkHealth(); otherwise its result is
\* there at once, drawn from the cached or the hardcoded list.
StartWalk(m, tk, sm, t, dm) ==
    LET tk1 == [tk EXCEPT !.idx = FirstIndex(m),
                          !.attempts = <<ProviderOrder[FirstIndex(m)]>>] IN
    IF FirstIndex(m) # 1 \/ SecmailNeedsCheck(sm, t)
    THEN [m |-> m, t |-> [tk1 EXCEPT !.pc = "attempt"]]
    ELSE AttemptDone(m, [tk1 EXCEPT !.domCheck = "skipped", !.doms = SecmailDomains(sm)],
                     FALSE, SecmailResult(tk.lg, dm))

(***************************************************************************)
(* TempMailManager.initialize                                              *)
(***************************************************************************)
\* The fallback, were it to pin secmail whatever is pinned.
InitializeFallbackAlways(m) == [m EXCEPT !.currentProvider = "secmail"]

\* line 361: if (!this.currentProvider) this.currentProvider = this.providers.secmail
InitializeFallback(m) ==
    IF m.currentProvider = "none" THEN [m EXCEPT !.currentProvider = "secmail"] ELSE m

\* lines 349-352: a healthy provider is pinned
PinHealthy(m, p) == [m EXCEPT !.currentProvider = p]

\* The provider at tk.idx has answered its checkHealth(): the manager and the
\* call after it, and whether initialize() has returned.
ProbeDone(m, tk, healthy) ==
    LET p == ProviderOrder[tk.idx]
        tk1 == [tk EXCEPT !.probes = Append(@, healthy)]
    IN IF healthy
       THEN [m |-> PinHealthy(m, p), t |-> tk1, returned |-> TRUE]
       ELSE IF NextIndex(tk.idx) # 0
            THEN [m |-> m, t |-> [tk1 EXCEPT !.idx = NextIndex(tk.idx)],
                  returned |-> FALSE]
            ELSE [m |-> InitializeFallback(m), t |-> tk1, returned |-> TRUE]

\* The call after the answer: initialize() goes on probing, or has returned.
AfterProbe(m, tk, healthy) ==
    LET r == ProbeDone(m, tk, healthy) IN
    [m |-> r.m, t |-> IF r.returned THEN [r.t EXCEPT !.pc = "inited"] ELSE r.t]

\* isReady(), lines 607-609: !!this.email && !!this.currentProvider
isReady(m) == m.email # NoStr /\ m.currentProvider # "none"

(***************************************************************************)
(* Scheduled polling                                                       *)
(***************************************************************************)
\* The stop, were it to drop the listing too.
StopAutoRefreshMgrDropping(m) == [m EXCEPT !.refreshInterval = 0, !.messages = <<>>,
                                           !.lastRefresh = 0]

\* stopAutoRefresh(): the manager after it
StopAutoRefreshMgr(m) == [m EXCEPT !.refreshInterval = 0]

\* The clearing, were the timer left armed.
StopAutoRefreshTimersNone(m, ts) == ts

\* stopAutoRefresh(): the armed timers after clearInterval(this.refreshInterval).
\* A timer is its handle h, its period every, and (history) the interval
\* argument it was asked with.
StopAutoRefreshTimers(m, ts) ==
    IF m.refreshInterval # 0 THEN {x \in ts : x.h # m.refreshInterval} ELSE ts

\* Math.max and Math.min of two integers
MathMax(a, b) == IF a >= b THEN a ELSE b
MathMin(a, b) == IF a <= b THEN a ELSE b

\* The interval arguments of startAutoRefresh: <<>> when none is passed, <<ms>>
\* otherwise.
NoInterval == <<>>
IntervalArgs ==
    {NoInterval} \cup
    {<<ms>> : ms \in {-1, 0, 500, 1999, 2000, 2001, 3000, 9999, 10000, 10001, 999999}}

\* line 534: interval = CONFIG.DEFAULT_REFRESH_INTERVAL when none is passed
IntervalParameter(arg) == IF arg = NoInterval THEN DEFAULT_REFRESH_INTERVAL ELSE arg[1]

\* The clamp, were it to bound from above only.
ClampIntervalUpperOnly(interval) == MathMin(interval, MAX_REFRESH_INTERVAL)

\* lines 538-539: Math.max(MIN_REFRESH_INTERVAL, Math.min(interval, MAX_REFRESH_INTERVAL))
ClampInterval(interval) ==
    MathMax(MIN_REFRESH_INTERVAL, MathMin(interval, MAX_REFRESH_INTERVAL))

\* The callback's exception, were it to clear the timer.
CallbackThrewCleared(m, ts) == StopAutoRefreshTimers(m, ts)

\* lines 545-547: the exception of the callback is caught and logged
CallbackThrew(m, ts) == ts

(***************************************************************************)
(* Mailbox calls: initialize, createEmail, refreshEmail, SecMailAPI.createEmail *)
(***************************************************************************)
\* A call has returned and its caller has not yet run on: the caller's
\* continuation runs before any timer, event or network answer is handled.
Quiescent ==
    /\ \A t \in Callers : mtask[t].pc \notin {"inited", "done"}
    /\ \A g \in ReadIds : gtask[g].pc # "done"
    /\ \A l \in ListIds : ltask[l].pc # "done"

\* A call made through SecMailAPI
ThroughFacade(tk) == [tk EXCEPT !.thru = TRUE]

NewTask(kind) ==
    [IdleTask EXCEPT !.kind = kind, !.lg = LoginOf(calls + 1),
                     !.pinned0 = currentProvider, !.timer0 = refreshInterval]

\* initialize(), were it to await a check of no provider.
EnterInitializeNowhere(tk) == [tk EXCEPT !.pc = "health", !.idx = 0]

\* initialize() is entered: the first provider's checkHealth() is awaited
EnterInitialize(tk) == [tk EXCEPT !.pc = "health", !.idx = 1]

\* createEmail() is entered with the manager m
EnterCreateEmail(m, tk, dm) ==
    IF m.currentProvider = "none"
    THEN [m |-> m, t |-> EnterInitialize(tk)]
    ELSE StartWalk(m, tk, secmail, now, dm)

\* refreshEmail(), lines 525-527: what it does before it calls createEmail()
RefreshPrologue(m) ==
    [StopAutoRefreshMgr(m) EXCEPT !.messages = <<>>, !.messageCache = EmptyCache]

CallInitialize(t) ==
    /\ Quiescent
    /\ mtask[t].pc = "idle"
    /\ calls < MaxCalls
    /\ calls' = calls + 1
    /\ mtask' = [mtask EXCEPT ![t] = EnterInitialize(NewTask("initialize"))]
    /\ UNCHANGED <<now, mgrVars, provVars, timers, gtask, ltask, fetchedFor, issuer, prevList, rq,
                   cbLog, nz, facade, ui>>

CallCreateEmail(t) ==
    /\ Quiescent
    /\ mtask[t].pc = "idle"
    /\ calls < MaxCalls
    /\ calls' = calls + 1
    /\ \E dm \in Elements(SecmailDomains(secmail)) :
          LET r == EnterCreateEmail(Mgr, NewTask("create"), dm) IN
          /\ SetMgr(r.m)
          /\ mtask' = [mtask EXCEPT ![t] = r.t]
    /\ UNCHANGED <<now, provVars, timers, gtask, ltask, prevList, rq,
                   cbLog, nz, facade, ui>>

CallRefreshEmail(t) ==
    /\ Quiescent
    /\ mtask[t].pc = "idle"
    /\ calls < MaxCalls
    /\ calls' = calls + 1
    /\ timers' = StopAutoRefreshTimers(Mgr, timers)
    /\ \E dm \in Elements(SecmailDomains(secmail)) :
          LET r == EnterCreateEmail(RefreshPrologue(Mgr), NewTask("refresh"), dm) IN
          /\ SetMgr(r.m)
          /\ mtask' = [mtask EXCEPT ![t] = r.t]
    /\ UNCHANGED <<now, provVars, gtask, ltask, prevList, rq,
                   cbLog, nz, facade, ui>>

\* SecMailAPI.createEmail(): await this.manager.initialize(), then createEmail()
CallFacadeCreateEmail(t) ==
    /\ Quiescent
    /\ mtask[t].pc = "idle"
    /\ calls < MaxCalls
    /\ calls' = calls + 1
    /\ mtask' = [mtask EXCEPT ![t] = EnterInitialize(ThroughFacade(NewTask("facade")))]
    /\ UNCHANGED <<now, mgrVars, provVars, timers, gtask, ltask, fetchedFor, issuer, prevList, rq,
                   cbLog, nz, facade, ui>>

\* SecMailAPI.refreshEmail(): this.manager.refreshEmail()
CallFacadeRefreshEmail(t) ==
    /\ Quiescent
    /\ mtask[t].pc = "idle"
    /\ calls < MaxCalls
    /\ calls' = calls + 1
    /\ timers' = StopAutoRefreshTimers(Mgr, timers)
    /\ \E dm \in Elements(SecmailDomains(secmail)) :
          LET r == EnterCreateEmail(RefreshPrologue(Mgr),
                                    ThroughFacade(NewTask("refresh")), dm) IN
          /\ SetMgr(r.m)
          /\ mtask' = [mtask EXCEPT ![t] = r.t]
    /\ UNCHANGED <<now, provVars, gtask, ltask, prevList, rq,
                   cbLog, nz, facade, ui>>

\* The facade's fields, were the login left as it was.
FacadeCacheStaleLogin(f, m, ret) ==
    [f EXCEPT !.email = ret, !.domain = m.domain]

\* lines 629-631 and 645-647: this.email = the address returned, login and
\* domain are copied from the manager
FacadeCache(f, m, ret) ==
    [f EXCEPT !.email = ret, !.login = m.login, !.domain = m.domain]

\* The caller of a mailbox call receives its result: createEmail() and
\* refreshEmail() return this.email (lines 397, 413, 528); SecMailAPI stores it
\* before it returns it to its own caller.
Return(t) ==
    /\ mtask[t].pc = "done"
    /\ mtask' = [mtask EXCEPT ![t] = IdleTask]
    /\ facade' = IF mtask[t].thru THEN FacadeCache(facade, Mgr, email) ELSE facade
    /\ UNCHANGED <<now, mgrVars, provVars, timers, gtask, ltask, calls,
                   fetchedFor, issuer, prevList, rq,
                   cbLog, nz, ui>>

\* initialize() has returned to its caller: a plain initialize() is over; in
\* createEmail() (line 375) and in the facade's createEmail() (lines 628-629)
\* the walk over the providers begins.
AfterInitialize(t) ==
    /\ mtask[t].pc = "inited"
    /\ IF mtask[t].kind = "initialize"
       THEN /\ mtask' = [mtask EXCEPT ![t] = IdleTask]
            /\ UNCHANGED <<mgrVars, fetchedFor, issuer>>
       ELSE \E dm \in Elements(SecmailDomains(secmail)) :
               LET r == StartWalk(Mgr, mtask[t], secmail, now, dm) IN
               /\ SetMgr(r.m)
               /\ mtask' = [mtask EXCEPT ![t] = r.t]
    /\ UNCHANGED <<now, provVars, timers, gtask, ltask, calls, prevList, rq,
                   cbLog, nz, facade, ui>>

\* secmail's checkHealth() inside initialize() is answered
HealthResultSecmail(t) ==
    /\ Quiescent
    /\ mtask[t].pc = "health"
    /\ mtask[t].idx = 1
    /\ \E resp \in DomainListResponses :
          LET c == SecmailCheckHealth(secmail, resp, now)
              r == AfterProbe(Mgr, mtask[t], c.healthy) IN
          /\ secmail' = c.sm
          /\ SetMgr(r.m)
          /\ mtask' = [mtask EXCEPT ![t] = r.t]
    /\ UNCHANGED <<now, mailtm, guerrilla, timers, gtask, ltask, calls, prevList, rq,
                   cbLog, nz, facade, ui>>

\* mail.tm's checkHealth() is answered: data['hydra:member']?.length > 0, or
\* false when the request threw.  (isHealthy is written and never read.)
HealthResultMailtm(t) ==
    /\ Quiescent
    /\ mtask[t].pc = "health"
    /\ mtask[t].idx = 2
    /\ \E h \in BOOLEAN :
          LET r == AfterProbe(Mgr, mtask[t], h) IN
          /\ SetMgr(r.m)
          /\ mtask' = [mtask EXCEPT ![t] = r.t]
    /\ UNCHANGED <<now, provVars, timers, gtask, ltask, calls, prevList, rq,
                   cbLog, nz, facade, ui>>

\* guerrillamail's checkHealth() is answered: !!data.email_addr, or false when
\* the request threw
HealthResultGuerrilla(t) ==
    /\ Quiescent
    /\ mtask[t].pc = "health"
    /\ mtask[t].idx = 3
    /\ \E h \in BOOLEAN :
          LET r == AfterProbe(Mgr, mtask[t], h) IN
          /\ SetMgr(r.m)
          /\ mtask' = [mtask EXCEPT ![t] = r.t]
    /\ UNCHANGED <<now, provVars, timers, gtask, ltask, calls, prevList, rq,
                   cbLog, nz, facade, ui>>

\* secmail.createEmail() is answered: the checkHealth() of getDomains() has
\* returned, a login and a domain of the list are drawn
AttemptSecmail(t) ==
    /\ Quiescent
    /\ mtask[t].pc = "attempt"
    /\ mtask[t].idx = 1
    /\ \E resp \in DomainListResponses :
          LET c == SecmailCheckHealth(secmail, resp, now) IN
          /\ secmail' = c.sm
          /\ \E dm \in Elements(SecmailDomains(c.sm)) :
                LET tk == [mtask[t] EXCEPT
                              !.domCheck = IF resp.ok THEN "ok" ELSE "failed",
                              !.doms = SecmailDomains(c.sm)]
                    r == AttemptDone(Mgr, tk, FALSE, SecmailResult(tk.lg, dm)) IN
                /\ SetMgr(r.m)
                /\ mtask' = [mtask EXCEPT ![t] = r.t]
    /\ UNCHANGED <<now, mailtm, guerrilla, timers, gtask, ltask, calls, prevList, rq,
                   cbLog, nz, facade, ui>>

\* What a provider's createEmail() hands to the loop when it throws.
NoResult == [login |-> NoStr, domain |-> NoStr, email |-> NoStr]

\* mail.tm's createEmail(), lines 190-220.  It throws when a request fails or no
\* domain is active, before this.token is assigned; otherwise it stores
\* tokenData.token (which the answer may lack) and returns the address.
\* (accountId is written and never read.)
AttemptMailtm(t) ==
    /\ Quiescent
    /\ mtask[t].pc = "attempt"
    /\ mtask[t].idx = 2
    /\ \/ /\ mailtm' = mailtm
          /\ LET r == AttemptDone(Mgr, mtask[t], TRUE, NoResult) IN
             /\ SetMgr(r.m)
             /\ mtask' = [mtask EXCEPT ![t] = r.t]
       \/ \E dm \in RemoteDomains, hasToken \in BOOLEAN :
             LET res == SecmailResult(mtask[t].lg, dm) IN
             /\ (dm = BadDomain => hasToken)
             /\ mailtm' = [mailtm EXCEPT
                              !.token = IF hasToken THEN res.email ELSE NoStr]
             /\ LET r == AttemptDone(Mgr, mtask[t], FALSE, res) IN
                /\ SetMgr(r.m)
                /\ mtask' = [mtask EXCEPT ![t] = r.t]
    /\ UNCHANGED <<now, secmail, guerrilla, timers, gtask, ltask, calls, prevList, rq,
                   cbLog, nz, facade, ui>>

\* The result, were the address not split.
GuerrillaResultUnsplit(addr) ==
    [login |-> addr, domain |-> NoStr, email |-> addr]

\* guerrillamail's createEmail(): { login, domain, email, sidToken } of an answer
GuerrillaResult(addr) ==
    [login |-> SplitLogin(addr), domain |-> SplitDomain(addr), email |-> addr]

\* guerrillamail's createEmail(), lines 270-280.  A failed request throws with
\* sidToken untouched; an answer sets sidToken = data.sid_token first, and
\* data.email_addr.split throws when the answer has no email_addr.
AttemptGuerrilla(t) ==
    /\ Quiescent
    /\ mtask[t].pc = "attempt"
    /\ mtask[t].idx = 3
    /\ \/ /\ guerrilla' = guerrilla
          /\ LET r == AttemptDone(Mgr, mtask[t], TRUE, NoResult) IN
             /\ SetMgr(r.m)
             /\ mtask' = [mtask EXCEPT ![t] = r.t]
       \/ /\ guerrilla' = [guerrilla EXCEPT !.sidToken = NoStr]
          /\ LET r == AttemptDone(Mgr, mtask[t], TRUE, NoResult) IN
             /\ SetMgr(r.m)
             /\ mtask' = [mtask EXCEPT ![t] = r.t]
       \/ \E dm \in RemoteDomains, hasSid \in BOOLEAN :
             LET addr == Address(mtask[t].lg, dm) IN
             /\ (dm = BadDomain => hasSid)
             /\ guerrilla' = [guerrilla EXCEPT
                                 !.sidToken = IF hasSid THEN addr ELSE NoStr]
             /\ LET r == AttemptDone(Mgr, mtask[t], FALSE, GuerrillaResult(addr)) IN
                /\ SetMgr(r.m)
                /\ mtask' = [mtask EXCEPT ![t] = r.t]
    /\ UNCHANGED <<now, secmail, mailtm, timers, gtask, ltask, calls, prevList, rq,
                   cbLog, nz, facade, ui>>

(***************************************************************************)
(* TempMailManager.getMessage                                              *)
(***************************************************************************)
\* The mailbox a request to provider p is for: secmail is asked with the
\* manager's login and domain (no mailbox when both are unset), mail.tm and
\* guerrillamail with their own token, which stands for the mailbox it was
\* issued for.
RequestBox(m, p) ==
    IF p = "secmail"
    THEN IF m.login = NoStr /\ m.domain = NoStr THEN NoStr
         ELSE Address(m.login, m.domain)
    ELSE IF p = "mailtm" THEN mailtm.token
    ELSE guerrilla.sidToken

\* if (!this.token) return null (lines 234, 294): no request is made
HasCredential(p) ==
    IF p = "mailtm" THEN mailtm.token # NoStr
    ELSE IF p = "guerrilla" THEN guerrilla.sidToken # NoStr
    ELSE TRUE

\* The record a provider answers with for message id of mailbox box; hasId tells
\* whether it carries an id field of its own.
RawDetail(box, id, hasId) == [id |-> IF hasId THEN id ELSE NoId, box |-> box]

\* lines 497-506: id: message.id || messageId, the other fields from the record
NormalizeDetail(raw, messageId) ==
    [id |-> IF raw.id # NoId THEN raw.id ELSE messageId, box |-> raw.box]

\* The fetched detail, were it counted and not cached.
StoreDetailUncached(m, messageId, d) ==
    [m EXCEPT !.stats.messagesReceived = @ + 1]

\* lines 509-510: the detail is cached and counted
StoreDetail(m, messageId, d) ==
    [m EXCEPT !.messageCache = (messageId :> d) @@ @,
              !.stats.messagesReceived = @ + 1]

\* The failed fetch, were it counted.
FetchMissCounted(m) == [m EXCEPT !.stats.messagesReceived = @ + 1]

\* lines 495, 514-518: no message came (the fetch threw, or the answer was
\* empty): the error is logged, null is returned
FetchMiss(m) == m

\* lines 476-482 and the provider's guard: what getMessage(messageId) does
\* before it waits: "hit", "null" (returns null at once) or "fetch"
GetMessageEntry(m, messageId) ==
    IF messageId \in DOMAIN m.messageCache THEN "hit"
    ELSE IF m.currentProvider = "none" THEN "null"
    ELSE IF ~HasCredential(m.currentProvider) THEN "null"
    ELSE "fetch"

CallGetMessage(g) ==
    /\ Quiescent
    /\ gtask[g].pc = "idle"
    /\ \E id \in MsgIds :
          LET e == GetMessageEntry(Mgr, id) IN
          /\ gtask' = [gtask EXCEPT ![g] =
              IF e = "hit"
              THEN [IdleRead EXCEPT !.pc = "done", !.id = id,
                                    !.ret = <<messageCache[id]>>]
              ELSE IF e = "null"
              THEN [IdleRead EXCEPT !.pc = "done", !.id = id]
              ELSE [IdleRead EXCEPT !.pc = "fetch", !.id = id, !.fetched = TRUE,
                                    !.via = currentProvider,
                                    !.box = RequestBox(Mgr, currentProvider)]]
          /\ fetchedFor' = IF e = "fetch" THEN fetchedFor \cup {id} ELSE fetchedFor
    /\ UNCHANGED <<now, mgrVars, provVars, timers, mtask, ltask, calls, prevList, rq,
                   cbLog, nz, facade, issuer, ui>>

\* The request of getMessage is answered: it threw (caught, line 514), or the
\* answer is empty (line 495), or it is a record
GetMessageAnswer(g) ==
    /\ Quiescent
    /\ gtask[g].pc = "fetch"
    /\ \/ /\ gtask' = [gtask EXCEPT ![g].pc = "done"]
          /\ SetMgr(FetchMiss(Mgr))
       \/ \E hasId \in BOOLEAN :
             LET d == NormalizeDetail(RawDetail(gtask[g].box, gtask[g].id, hasId),
                                      gtask[g].id) IN
             /\ SetMgr(StoreDetail(Mgr, gtask[g].id, d))
             /\ gtask' = [gtask EXCEPT ![g].pc = "done", ![g].ret = <<d>>]
    /\ UNCHANGED <<now, provVars, timers, mtask, ltask, calls, prevList, rq,
                   cbLog, nz, facade, ui>>

\* The caller of getMessage receives its result.
ReturnGetMessage(g) ==
    /\ gtask[g].pc = "done"
    /\ gtask' = [gtask EXCEPT ![g] = IdleRead]
    /\ UNCHANGED <<now, mgrVars, provVars, timers, mtask, ltask, calls,
                   fetchedFor, issuer, prevList, rq,
                   cbLog, nz, facade, ui>>

GetMessageNext ==
    \E g \in ReadIds :
        \/ CallGetMessage(g)
        \/ GetMessageAnswer(g)
        \/ ReturnGetMessage(g)

(***************************************************************************)
(* TempMailManager.getMessages                                             *)
(***************************************************************************)
\* A record of a provider's listing of mailbox box, and its normalized summary
\* (normalizeMessages, lines 459-468).
RawSummary(box, id) == [id |-> id, box |-> box]
NormalizeSummary(raw) == [id |-> raw.id, box |-> raw.box]

\* What a listing request may be answered with: "threw" (the request or
\* response.json() failed), "nonarray" (JSON that is no array), "nullitem" (an
\* array holding null, on which normalizeMessages throws), or the inbox, empty
\* ("empty") or with one message ("one").
ListAnswers == {"threw", "nonarray", "nullitem", "empty", "one"}

\* normalizeMessages(messages) for an answer that does not make it throw
NormalizedListing(answer, box) ==
    IF answer = "one" THEN <<NormalizeSummary(RawSummary(box, "m1"))>> ELSE <<>>

\* The window, were its end included.
WithinCacheWindowClosed(m, t) == t - m.lastRefresh <= CACHE_DURATION

\* line 423: now - this.lastRefresh < CONFIG.CACHE_DURATION
WithinCacheWindow(m, t) == t - m.lastRefresh < CACHE_DURATION

\* line 428: !this.currentProvider || !this.login || !this.domain
NoMailbox(m) == m.currentProvider = "none" \/ m.login = NoStr \/ m.domain = NoStr

\* The failure, were it to empty the list.
ListingFailedEmptied(m) == [m |-> [m EXCEPT !.messages = <<>>], ret |-> <<>>]

\* lines 447-450: the listing or its normalization threw
ListingFailed(m) == [m |-> m, ret |-> m.messages]

\* lines 444-445: the normalized listing becomes the last known good one
ListingFetched(m, listing) ==
    [m |-> [m EXCEPT !.messages = listing], ret |-> listing]

\* getMessages() up to its first wait: the manager after it, and the call
GetMessagesEntry(m, tk, t) ==
    IF WithinCacheWindow(m, t)
    THEN [m |-> m, t |-> [tk EXCEPT !.pc = "done", !.out = "cached", !.ret = m.messages]]
    ELSE LET m1 == [m EXCEPT !.lastRefresh = t] IN
         IF NoMailbox(m1)
         THEN [m |-> m1, t |-> [tk EXCEPT !.pc = "done", !.out = "empty"]]
         ELSE IF ~HasCredential(m1.currentProvider)
              THEN LET r == ListingFetched(m1, <<>>) IN
                   [m |-> r.m, t |-> [tk EXCEPT !.pc = "done", !.out = "fetched",
                                                !.ret = r.ret]]
              ELSE [m |-> m1,
                    t |-> [tk EXCEPT !.pc = "fetch", !.via = m1.currentProvider,
                                     !.box = RequestBox(m1, m1.currentProvider)]]

CallGetMessages(l) ==
    /\ Quiescent
    /\ ltask[l].pc = "idle"
    /\ LET r == GetMessagesEntry(Mgr, [IdleList EXCEPT !.src = "manual", !.at = now], now)
       IN /\ SetMgr(r.m)
          /\ ltask' = [ltask EXCEPT ![l] = r.t]
    /\ UNCHANGED <<now, provVars, timers, mtask, gtask, calls, prevList, rq,
                   cbLog, nz, facade, ui>>

\* The provider's listing request is answered.
GetMessagesAnswer(l) ==
    /\ Quiescent
    /\ ltask[l].pc = "fetch"
    /\ \E answer \in ListAnswers :
          LET failed == answer \in {"threw", "nullitem"}
              r == IF failed THEN ListingFailed(Mgr)
                   ELSE ListingFetched(Mgr, NormalizedListing(answer, ltask[l].box))
          IN /\ SetMgr(r.m)
             /\ ltask' = [ltask EXCEPT ![l].pc = "done", ![l].ret = r.ret,
                             ![l].out = IF failed THEN "failed" ELSE "fetched"]
    /\ UNCHANGED <<now, provVars, timers, mtask, gtask, calls, prevList, rq,
                   cbLog, nz, facade, ui>>

\* The caller of getMessages (the page, or the poll's callback) receives the list.
ReturnGetMessages(l) ==
    /\ ltask[l].pc = "done"
    /\ ltask[l].src = "manual"
    /\ ltask' = [ltask EXCEPT ![l] = IdleList]
    /\ prevList' = [at |-> ltask[l].at, ret |-> ltask[l].ret, out |-> ltask[l].out]
    /\ UNCHANGED <<now, mgrVars, provVars, timers, mtask, gtask, calls, fetchedFor, issuer, rq,
                   cbLog, nz, facade, ui>>

\* startAutoRefresh(callback, interval): the old timer is cleared, a new one
\* armed with the clamped interval
StartedAutoRefresh(m, timers0, arg) ==
    LET ts == StopAutoRefreshTimers(m, timers0)
        h == Min({n \in 1..(Cardinality(ts) + 1) : \A x \in ts : x.h # n})
        every == ClampInterval(IntervalParameter(arg))
    IN [m |-> [m EXCEPT !.refreshInterval = h],
        ts |-> ts \cup {[h |-> h, every |-> every, asked |-> arg]}]

StartAutoRefreshWith(arg) ==
    /\ Quiescent
    /\ LET r == StartedAutoRefresh(Mgr, timers, arg)
       IN /\ timers' = r.ts
          /\ SetMgr(r.m)
    /\ UNCHANGED <<now, provVars, mtask, gtask, ltask, calls, prevList, rq,
                   cbLog, nz, facade, ui>>

StartAutoRefresh == \E arg \in IntervalArgs : StartAutoRefreshWith(arg)

\* mailManager.startAutoRefresh(handleNewMessages, 3000), as the page calls it
PagePollInterval == 3000
PageStartAutoRefresh == StartAutoRefreshWith(<<PagePollInterval>>)

StopAutoRefresh ==
    /\ Quiescent
    /\ timers' = StopAutoRefreshTimers(Mgr, timers)
    /\ SetMgr(StopAutoRefreshMgr(Mgr))
    /\ UNCHANGED <<now, provVars, mtask, gtask, ltask, calls, prevList, rq,
                   cbLog, nz, facade, ui>>

\* Time passes.
Tick ==
    /\ Quiescent
    /\ now + TickMs <= StartTime + MaxTicks * TickMs
    /\ now' = now + TickMs
    /\ UNCHANGED <<mgrVars, provVars, timers, mtask, gtask, ltask, calls,
                   fetchedFor, issuer, prevList, rq,
                   cbLog, nz, facade, ui>>

\* More time passes than the domain list stays fresh.
TickMinute ==
    /\ Quiescent
    /\ now + DOMAIN_FRESHNESS + TickMs <= StartTime + MaxTicks * (DOMAIN_FRESHNESS + TickMs)
    /\ now' = now + DOMAIN_FRESHNESS + TickMs
    /\ UNCHANGED <<mgrVars, provVars, timers, mtask, gtask, ltask, calls,
                   fetchedFor, issuer, prevList, rq,
                   cbLog, nz, facade, ui>>

\* The timer, were it to fire though cleared.
ArmedOrCleared(ts) == TRUE

\* setInterval / clearInterval: the callback is called while the timer is armed
Armed(ts) == ts # {}

\* The timer fires: its callback calls getMessages() (line 543).
PollFires(l) ==
    /\ Quiescent
    /\ Armed(timers)
    /\ ltask[l].pc = "idle"
    /\ Len(cbLog) + Cardinality({k \in ListIds : ltask[k].src = "poll"}) < MaxPolls
    /\ LET r == GetMessagesEntry(Mgr, [IdleList EXCEPT !.src = "poll", !.at = now], now)
       IN /\ SetMgr(r.m)
          /\ ltask' = [ltask EXCEPT ![l] = r.t]
    /\ UNCHANGED <<now, provVars, timers, mtask, gtask, calls, prevList, rq,
                   cbLog, nz, facade, ui>>

\* lines 544-547: getMessages() has returned to the timer's callback, which
\* calls callback(messages); the callback returns or throws.
PollDelivers(l) ==
    /\ ltask[l].pc = "done"
    /\ ltask[l].src = "poll"
    /\ ltask' = [ltask EXCEPT ![l] = IdleList]
    /\ prevList' = [at |-> ltask[l].at, ret |-> ltask[l].ret, out |-> ltask[l].out]
    /\ \E threw \in BOOLEAN :
          /\ cbLog' = Append(cbLog, IF threw THEN "threw" ELSE "ok")
          /\ timers' = IF threw THEN CallbackThrew(Mgr, timers) ELSE timers
    /\ UNCHANGED <<now, mgrVars, provVars, mtask, gtask, calls, fetchedFor, issuer, rq,
                   nz, facade, ui>>

GetMessagesNext ==
    \/ \E l \in ListIds :
          \/ CallGetMessages(l)
          \/ GetMessagesAnswer(l)
          \/ ReturnGetMessages(l)
    \/ PageStartAutoRefresh
    \/ StopAutoRefresh
    \/ Tick

\* A network answer to the mailbox call of caller t.
MailboxAnswer(t) ==
    \/ HealthResultSecmail(t)
    \/ HealthResultMailtm(t)
    \/ HealthResultGuerrilla(t)
    \/ AttemptSecmail(t)
    \/ AttemptMailtm(t)
    \/ AttemptGuerrilla(t)

\* The page's mailbox calls.
PageNext ==
    \/ CallInitialize("page")
    \/ CallCreateEmail("page")
    \/ CallRefreshEmail("page")
    \/ CallFacadeCreateEmail("page")
    \/ AfterInitialize("page")
    \/ Return("page")
    \/ MailboxAnswer("page")

\* The countdown timer's refreshEmail(), which may overlap a call of the page.
TimerNext ==
    \/ CallRefreshEmail("timer")
    \/ AfterInitialize("timer")
    \/ Return("timer")
    \/ MailboxAnswer("timer")

(***************************************************************************)
(* main.js: the page loads, and the two triggers of a new mailbox           *)
(***************************************************************************)
\* What sessionStorage may hold of an earlier load of the page: the address,
\* login and domain the manager then had, issued by provider.
SavedSessions ==
    {[login |-> LoginOf(Len(DigitChars)), domain |-> GoodDomain,
      email |-> Address(LoginOf(Len(DigitChars)), GoodDomain), provider |-> p] :
        p \in Elements(ProviderOrder)}

\* lines 222-225: the saved session is put into the manager
RestoreSession(m, sv) ==
    [m EXCEPT !.email = sv.email, !.login = sv.login, !.domain = sv.domain]

\* The page makes its mailbox calls one after the other when it loads, and as
\* many more as two triggers can make.
MaxUiCalls == MaxCalls + 2

\* DOMContentLoaded, initEmailService() up to its first wait: initialize()
PageLoads ==
    /\ Quiescent
    /\ ui.phase = "fresh"
    /\ calls' = calls + 1
    /\ mtask' = [mtask EXCEPT !["page"] = EnterInitialize(NewTask("initialize"))]
    /\ ui' = [ui EXCEPT !.phase = "init"]
    /\ UNCHANGED <<now, mgrVars, provVars, timers, gtask, ltask, fetchedFor, issuer,
                   prevList, rq, cbLog, nz, facade>>

\* initEmailService(), lines 243-247, with the manager m: startAutoRefresh(
\* handleNewMessages, 3000), then getMessages() up to its first wait
BootTail(m, who) ==
    LET a == StartedAutoRefresh(m, timers, <<PagePollInterval>>)
        r == GetMessagesEntry(a.m, [IdleList EXCEPT !.src = "manual", !.at = now], now)
    IN /\ timers' = a.ts
       /\ SetMgrBy(r.m, who)
       /\ ltask' = [ltask EXCEPT ![1] = r.t]
       /\ ui' = [ui EXCEPT !.phase = "list"]

\* initEmailService(), lines 213-247: initialize() has returned; a saved
\* session is restored, or createNewEmail() is called
BootContinues ==
    /\ Quiescent
    /\ ui.phase = "init"
    /\ mtask["page"].pc = "idle"
    /\ \/ /\ \E sv \in SavedSessions :
                BootTail(RestoreSession(Mgr, sv), sv.provider)
          /\ UNCHANGED <<mtask, calls>>
       \/ /\ calls' = calls + 1
          /\ \E dm \in Elements(SecmailDomains(secmail)) :
                LET r == EnterCreateEmail(Mgr, NewTask("create"), dm) IN
                /\ SetMgr(r.m)
                /\ mtask' = [mtask EXCEPT !["page"] = r.t]
          /\ ui' = [ui EXCEPT !.phase = "create"]
          /\ UNCHANGED <<timers, ltask>>
    /\ UNCHANGED <<now, provVars, gtask, prevList, rq, cbLog, nz, facade>>

\* lines 247-249 and 42-48: the first listing has returned; the listeners are
\* set up and the countdown is started
BootListed ==
    /\ ui.phase = "list"
    /\ ltask[1].pc = "done"
    /\ ltask' = [ltask EXCEPT ![1] = IdleList]
    /\ prevList' = [at |-> ltask[1].at, ret |-> ltask[1].ret, out |-> ltask[1].out]
    /\ ui' = [ui EXCEPT !.phase = "ready"]
    /\ UNCHANGED <<now, mgrVars, provVars, timers, mtask, gtask, calls, fetchedFor,
                   issuer, rq, cbLog, nz, facade>>

\* main.js refreshEmail(), lines 455-468: the button is disabled, polling is
\* stopped, mailManager.refreshEmail() is called
UiRefreshEmail(t) ==
    /\ Quiescent
    /\ ui.phase = "ready"
    /\ mtask[t].pc = "idle"
    /\ calls < MaxUiCalls
    /\ calls' = calls + 1
    /\ ui' = [ui EXCEPT !.disabled = TRUE]
    /\ timers' = StopAutoRefreshTimers(Mgr, timers)
    /\ \E dm \in Elements(SecmailDomains(secmail)) :
          LET r == EnterCreateEmail(RefreshPrologue(Mgr), NewTask("refresh"), dm) IN
          /\ SetMgr(r.m)
          /\ mtask' = [mtask EXCEPT ![t] = r.t]
    /\ UNCHANGED <<now, provVars, gtask, ltask, prevList, rq, cbLog, nz, facade>>

\* A click on the refresh button (line 307): a disabled button gets no click.
ClickRefreshButton ==
    /\ ~ui.disabled
    /\ UiRefreshEmail("page")

\* startTimer(), lines 661-667: timeRemaining has reached 0; refreshEmail() is
\* called whatever the state of the button.
CountdownExpires == UiRefreshEmail("timer")

\* A mailbox call of the page has returned: createNewEmail() inside
\* initEmailService() (lines 236-247), or mailManager.refreshEmail() inside
\* refreshEmail() (lines 469-496), which restarts polling and enables the button.
UiReturn(t) ==
    /\ mtask[t].pc = "done"
    /\ mtask' = [mtask EXCEPT ![t] = IdleTask]
    /\ IF ui.phase = "create"
       THEN BootTail(Mgr, issuer)
       ELSE LET a == StartedAutoRefresh(Mgr, timers, <<PagePollInterval>>) IN
            /\ timers' = a.ts
            /\ SetMgr(a.m)
            /\ ui' = [ui EXCEPT !.disabled = FALSE]
            /\ ltask' = ltask
    /\ UNCHANGED <<now, provVars, gtask, calls, prevList, rq, cbLog, nz, facade>>

(***************************************************************************)
(* fetchWithRetry                                                          *)
(***************************************************************************)
\* The retries arguments of a call: none is passed (the default, MAX_RETRIES),
\* checkHealth passes 1; every value from 0 to the default is drawn.
RetryArgs == 0..MAX_RETRIES

\* How an attempt may fail: fetch() rejects ("network"), or the response is
\* not ok and line 78 throws Error('HTTP status') ("http"), or the signal given
\* to fetch() is aborted and fetch() rejects with an AbortError ("abort").
RetryableFailures == {"network", "http"}

\* line 85: error.name?.includes('Abort')
IsAbortError(f) == f = "abort"

\* The retry test, were one retry fewer allowed.
CanRetryStrict(retries, f) == retries > 1 /\ ~IsAbortError(f)

\* line 85: retries > 0 && !error.name?.includes('Abort')
CanRetry(retries, f) == retries > 0 /\ ~IsAbortError(f)

\* The delay, were it not to grow.
BackoffDelayFlat(retries) == RETRY_DELAY

\* line 86: RETRY_DELAY * Math.pow(RETRY_MULTIPLIER, MAX_RETRIES - retries)
BackoffDelay(retries) == RETRY_DELAY * RETRY_MULTIPLIER ^ (MAX_RETRIES - retries)

\* lines 67-74: a new AbortController, its timeout armed, and fetch() called
\* with { ...options, signal: controller.signal }
EnterFetch(r, retries) ==
    [r EXCEPT !.pc = "fetching", !.retries = retries, !.timeout = TRUE,
              !.attempts = @ + 1]

\* lines 82-91: the attempt failed with f
FailedAttempt(r, f) ==
    LET r1 == [r EXCEPT !.timeout = FALSE, !.fails = Append(@, f)] IN
    IF CanRetry(r.retries, f)
    THEN [r1 EXCEPT !.pc = "sleeping", !.delays = Append(@, BackoffDelay(r.retries))]
    ELSE [r1 EXCEPT !.pc = "threw", !.err = f]

\* fetchWithRetry(url, options, retries) is called
CallFetchWithRetry ==
    /\ rq.pc = "idle"
    /\ \E retries \in RetryArgs, ownSignal \in BOOLEAN :
          rq' = EnterFetch([IdleRequest EXCEPT !.retries0 = retries,
                                               !.ownSignal = ownSignal], retries)
    /\ UNCHANGED <<now, mgrVars, provVars, timers, mtask, gtask, ltask, calls,
                   fetchedFor, issuer, prevList,
                   cbLog, nz, facade, ui>>

\* lines 72-81: fetch() resolves with an ok response, which is returned
AttemptSucceeds ==
    /\ rq.pc = "fetching"
    /\ rq' = [rq EXCEPT !.pc = "returned", !.timeout = FALSE]
    /\ UNCHANGED <<now, mgrVars, provVars, timers, mtask, gtask, ltask, calls,
                   fetchedFor, issuer, prevList,
                   cbLog, nz, facade, ui>>

\* lines 72-91: fetch() rejects, or resolves with a response that is not ok
AttemptFails ==
    /\ rq.pc = "fetching"
    /\ \E f \in RetryableFailures : rq' = FailedAttempt(rq, f)
    /\ UNCHANGED <<now, mgrVars, provVars, timers, mtask, gtask, ltask, calls,
                   fetchedFor, issuer, prevList,
                   cbLog, nz, facade, ui>>

\* line 68: REQUEST_TIMEOUT has passed: controller.abort(), upon which fetch()
\* rejects with an AbortError
AttemptTimesOut ==
    /\ rq.pc = "fetching"
    /\ rq.timeout
    /\ rq' = FailedAttempt(rq, "abort")
    /\ UNCHANGED <<now, mgrVars, provVars, timers, mtask, gtask, ltask, calls,
                   fetchedFor, issuer, prevList,
                   cbLog, nz, facade, ui>>

\* The caller aborts the signal it passed in options.  fetch() was given
\* controller.signal in its place (line 74), so the attempt goes on.
CallerAborts ==
    /\ rq.pc \in {"fetching", "sleeping"}
    /\ rq.ownSignal
    /\ ~rq.aborted
    /\ rq' = [rq EXCEPT !.aborted = TRUE]
    /\ UNCHANGED <<now, mgrVars, provVars, timers, mtask, gtask, ltask, calls,
                   fetchedFor, issuer, prevList,
                   cbLog, nz, facade, ui>>

\* lines 87-88: the sleep is over, fetchWithRetry(url, options, retries - 1)
BackoffElapsed ==
    /\ rq.pc = "sleeping"
    /\ rq' = EnterFetch(rq, rq.retries - 1)
    /\ UNCHANGED <<now, mgrVars, provVars, timers, mtask, gtask, ltask, calls,
                   fetchedFor, issuer, prevList,
                   cbLog, nz, facade, ui>>

\* The caller of fetchWithRetry receives the response or the error.
RequestOver ==
    /\ rq.pc \in {"returned", "threw"}
    /\ rq' = IdleRequest
    /\ UNCHANGED <<now, mgrVars, provVars, timers, mtask, gtask, ltask, calls,
                   fetchedFor, issuer, prevList,
                   cbLog, nz, facade, ui>>

NextFetch ==
    \/ CallFetchWithRetry
    \/ AttemptSucceeds
    \/ AttemptFails
    \/ AttemptTimesOut
    \/ CallerAborts
    \/ BackoffElapsed
    \/ RequestOver

\* One request after another through the retry client.
SpecFetch == Init /\ [][NextFetch]_vars

(***************************************************************************)
(* Normalization of the providers' records: normalizeMessages and the      *)
(* normalization inside getMessage.  The id, from and subject fields are    *)
(* modelled; date, preview, body and attachments are resolved the same way  *)
(* and are left out.                                                        *)
(***************************************************************************)
\* JavaScript values a field of a record may hold: undefined (the field is
\* missing), null, and strings.
Undefined == [t |-> "undefined", s |-> NoStr]
Null == [t |-> "null", s |-> NoStr]
Str(s) == [t |-> "string", s |-> s]

\* ToBoolean(v): undefined, null and "" are falsy
Truthy(v) == v.t = "string" /\ v.s # NoStr

\* a || b
Or(a, b) == IF Truthy(a) THEN a ELSE b

\* '(بدون عنوان)', transliterated
UntitledSubject == Str(<<"(", "b", "d", "w", "n", " ", "E", "n", "w", "a", "n", ")">>)

\* v?.split('/').pop(): the piece after the last "/", undefined for a missing v
SlashPositions(q) == {i \in 1..Len(q) : q[i] = "/"}
Max(S) == CHOOSE x \in S : \A y \in S : x >= y
LastSegment(v) ==
    IF v.t # "string" THEN Undefined
    ELSE IF SlashPositions(v.s) = {} THEN v
    ELSE Str(SubSeq(v.s, Max(SlashPositions(v.s)) + 1, Len(v.s)))

\* The subject, were nothing put in place of a missing one.
SubjectOfBare(msg) == Or(msg.subject, msg.mail_subject)

\* lines 464 and 500: subject || mail_subject || '(بدون عنوان)'
SubjectOf(msg) == Or(Or(msg.subject, msg.mail_subject), UntitledSubject)

\* lines 462-464: one record of a listing in the summary shape
SummaryOf(msg) ==
    [id |-> Or(Or(msg.id, msg.mail_id), LastSegment(msg.atId)),
     from |-> Or(msg.from, msg.mail_from),
     subject |-> SubjectOf(msg)]

\* lines 497-500: a fetched record in the detail shape
DetailOf(message, messageId) ==
    [id |-> Or(message.id, Str(messageId)),
     from |-> Or(message.from, message.mail_from),
     subject |-> SubjectOf(message)]

\* The records the providers may answer with: 1secmail names its fields id,
\* from, subject; mail.tm id, @id, subject; guerrillamail mail_id, mail_from,
\* mail_subject.
SubjectValues == {Undefined, Null, Str(NoStr), Str(<<"H", "i">>)}
IdValues == {Undefined, Str(<<"7">>)}
AtIdValues == {Undefined, Str(<<"/", "m", "/", "7">>)}
FromValues == {Undefined, Str(<<"a", "@", "b", ".", "c", "o">>)}
RawRecords ==
    [id : IdValues, mail_id : IdValues, atId : AtIdValues,
     from : FromValues, mail_from : FromValues,
     subject : SubjectValues, mail_subject : SubjectValues]

\* normalizeMessages([msg]): the record msg of a listing is normalized
NormalizeListed ==
    /\ \E msg \in RawRecords :
          nz' = <<[shape |-> "summary", raw |-> msg, out |-> SummaryOf(msg)]>>
    /\ UNCHANGED <<now, mgrVars, provVars, timers, mtask, gtask, ltask, calls,
                   fetchedFor, issuer, prevList, rq, cbLog, facade, ui>>

\* getMessage(messageId): the record the provider returned is normalized
NormalizeFetched ==
    /\ \E message \in RawRecords, messageId \in MsgIds :
          nz' = <<[shape |-> "detail", raw |-> message,
                   out |-> DetailOf(message, <<messageId>>)]>>
    /\ UNCHANGED <<now, mgrVars, provVars, timers, mtask, gtask, ltask, calls,
                   fetchedFor, issuer, prevList, rq, cbLog, facade, ui>>

NextNormalize == NormalizeListed \/ NormalizeFetched

\* One record after another through the two normalizations.
SpecNormalize == Init /\ [][NextNormalize]_vars

\* Scheduled polling before a mailbox exists: the timer is armed and cleared,
\* fires, and its callback runs; the page lists messages too.
NextPoll ==
    \/ StartAutoRefresh
    \/ StopAutoRefresh
    \/ Tick
    \/ \E l \in ListIds :
          \/ PollFires(l)
          \/ PollDelivers(l)
          \/ CallGetMessages(l)
          \/ ReturnGetMessages(l)

SpecPoll == Init /\ [][NextPoll]_vars

\* Polling of a mailbox: the page creates and refreshes the mailbox, starts
\* and stops polling; the polls' listing requests are answered.
NextMailboxPoll ==
    \/ CallCreateEmail("page")
    \/ CallRefreshEmail("page")
    \/ AfterInitialize("page")
    \/ Return("page")
    \/ MailboxAnswer("page")
    \/ PageStartAutoRefresh
    \/ StopAutoRefresh
    \/ \E l \in ListIds :
          \/ PollFires(l)
          \/ PollDelivers(l)
          \/ GetMessagesAnswer(l)

SpecMailboxPoll == Init /\ [][NextMailboxPoll]_vars

\* Mailbox rotation by the page and the timer, without reads.
NextRotation == PageNext \/ TimerNext
SpecRotation == Init /\ [][NextRotation]_vars

\* SecMailAPI.startAutoRefresh(callback, interval = 3000), line 651
FacadeDefaultInterval == 3000
FacadeIntervalArgs == {NoInterval, <<500>>, <<PagePollInterval>>}
FacadeIntervalParameter(arg) ==
    IF arg = NoInterval THEN FacadeDefaultInterval ELSE arg[1]

\* SecMailAPI.startAutoRefresh(): this.manager.startAutoRefresh(callback, interval)
FacadeStartAutoRefresh ==
    \E arg \in FacadeIntervalArgs :
        StartAutoRefreshWith(<<FacadeIntervalParameter(arg)>>)

\* SecMailAPI.stopAutoRefresh(): this.manager.stopAutoRefresh()
FacadeStopAutoRefresh == StopAutoRefresh

\* The page's calls through SecMailAPI only.
NextFacade ==
    \/ FacadeStartAutoRefresh
    \/ FacadeStopAutoRefresh
    \/ CallFacadeCreateEmail("page")
    \/ CallFacadeRefreshEmail("page")
    \/ AfterInitialize("page")
    \/ Return("page")
    \/ MailboxAnswer("page")

SpecFacade == Init /\ [][NextFacade]_vars

\* The calls of the TempMailManager itself by the page (the facade aside).
ManagerNext ==
    \/ CallInitialize("page")
    \/ CallCreateEmail("page")
    \/ CallRefreshEmail("page")
    \/ AfterInitialize("page")
    \/ Return("page")
    \/ MailboxAnswer("page")

\* The page's mailbox calls over minutes: the domain list of 1secmail ages.
NextDomains == ManagerNext \/ TickMinute
SpecDomains == Init /\ [][NextDomains]_vars

\* The page as main.js drives the manager: it loads, then the refresh button
\* and the countdown ask for new mailboxes.
NextUi ==
    \/ PageLoads
    \/ BootContinues
    \/ BootListed
    \/ ClickRefreshButton
    \/ CountdownExpires
    \/ \E t \in Callers : UiReturn(t) \/ MailboxAnswer(t)
    \/ AfterInitialize("page")
    \/ GetMessagesAnswer(1)

SpecUi == Init /\ [][NextUi]_vars

\* The page's mailbox calls and the reading of single messages.
NextRead == ManagerNext \/ GetMessageNext
SpecRead == Init /\ [][NextRead]_vars

\* The page's mailbox calls, the listing of messages, polling and time.
NextList == ManagerNext \/ GetMessagesNext
SpecList == Init /\ [][NextList]_vars

\* A provider's answer to the call of caller t can be handled: the call waits
\* for it and no caller's continuation is due first.
CanAnswer(t) ==
    /\ mtask[t].pc \in {"health", "attempt"}
    /\ mtask[t].idx \in 1..Len(ProviderOrder)
    /\ Quiescent
CanAnswerIsEnabled ==
    \A t \in Callers : CanAnswer(t) <=> ENABLED <<MailboxAnswer(t)>>_vars

\* A step of MailboxAnswer(t): only these change a call that waits for an answer.
Answered(t) == mtask[t].pc \in {"health", "attempt"} /\ mtask'[t] # mtask[t]

\* Every request is answered in the end (it resolves, rejects or times out):
\* WF_vars(MailboxAnswer(t)), written out with the enabling condition of the
\* action in place of ENABLED.
AnswerFairness(t) == ([]<>~CanAnswer(t)) \/ []<><<Answered(t)>>_vars

\* Mailbox rotation when every request is answered in the end and the event
\* loop runs the continuation of every call that has returned.
RotationFairness ==
    \A t \in Callers :
        /\ AnswerFairness(t)
        /\ WF_vars(AfterInitialize(t))
        /\ WF_vars(Return(t))
SpecRotationLive == SpecRotation /\ RotationFairness

(***************************************************************************)
(* Properties.                                                             *)
(***************************************************************************)
Last(q) == q[Len(q)]
IsPrefixOf(q, r) == Len(q) <= Len(r) /\ \A i \in 1..Len(q) : q[i] = r[i]

\* C1: createMailbox walks the adapters in the fixed order A, B, C whatever
\* adapter was pinned at the call: the adapters attempted are always a prefix of
\* that order; an adapter that returns a valid address is the last one
\* attempted, the call is over with it, and it is the pinned adapter.
C1_FixedOrderWalk ==
    \A t \in Callers :
        LET tk == mtask[t] IN
        /\ IsPrefixOf(tk.attempts, ProviderOrder)
        /\ Len(tk.outcomes) <= Len(tk.attempts)
        /\ \A i \in 1..Len(tk.outcomes) :
              tk.outcomes[i] = "valid" =>
                  /\ i = Len(tk.attempts)
                  /\ tk.pc = "done"
                  /\ tk.how = "adapter"
        /\ (tk.pc = "done" /\ tk.how = "adapter") =>
              /\ tk.outcomes # <<>>
              /\ Len(tk.outcomes) = Len(tk.attempts)
              /\ Last(tk.outcomes) = "valid"
              /\ tk.by = Last(tk.attempts)
              /\ currentProvider = tk.by
        /\ (tk.pc = "attempt") => Len(tk.attempts) = Len(tk.outcomes) + 1

\* C1 witness: with the third adapter pinned at the call, the walk began at
\* the first adapter and ended at the second, which is now pinned.
C1_Witness ==
    \E t \in Callers :
        /\ mtask[t].pc = "done"
        /\ mtask[t].how = "adapter"
        /\ mtask[t].pinned0 = "guerrilla"
        /\ mtask[t].attempts = <<"secmail", "mailtm">>
        /\ currentProvider = "mailtm"

\* C2: each failed attempt of an adapter in the walk of createMailbox() (one
\* that threw, or one whose result was rejected) increments the provider-switch
\* counter by one, and when the attempts of A and B failed and that of C
\* succeeded, C is pinned.
C2_FailureStep ==
    \A t \in Callers :
        Len(mtask'[t].outcomes) = Len(mtask[t].outcomes) + 1 =>
            /\ Last(mtask'[t].outcomes) # "valid" =>
                  stats'.providerSwitches = stats.providerSwitches + 1
            /\ (Len(mtask'[t].outcomes) = 3 /\ Last(mtask'[t].outcomes) = "valid") =>
                  currentProvider' = "guerrilla"

C2_EachFailureCounts == [][C2_FailureStep]_vars

\* C3: when all three adapters have failed, createMailbox() ends (it does
\* not raise) with the address <login>@1secmail.com built from the call's
\* fresh login in the step of the last failure, with no further request;
\* adapter A is pinned and isReady() is true.
C3_SyntheticFallback ==
    \A t \in Callers :
        LET tk == mtask[t] IN
        /\ (tk.pc = "done" /\ tk.how = "synthetic") =>
              /\ tk.attempts = ProviderOrder
              /\ Len(tk.outcomes) = 3
              /\ \A i \in 1..3 : tk.outcomes[i] # "valid"
              /\ email = Address(tk.lg, SecmailCom)
              /\ login = tk.lg
              /\ domain = SecmailCom
              /\ isValidEmail(email)
              /\ currentProvider = "secmail"
              /\ isReady(Mgr)
        /\ (Len(tk.outcomes) = 3 /\ Last(tk.outcomes) # "valid") =>
              (tk.pc = "done" /\ tk.how = "synthetic")

\* C3 witness: the three attempts failed (a rejected address, two throws)
\* while the third adapter was pinned, and the call has ended with the
\* synthetic address.
C3_Witness ==
    \E t \in Callers :
        /\ mtask[t].pc = "done"
        /\ mtask[t].how = "synthetic"
        /\ mtask[t].pinned0 = "guerrilla"
        /\ mtask[t].outcomes = <<"invalid", "threw", "threw">>
        /\ email = Address(mtask[t].lg, SecmailCom)

\* C4: the step in which createMailbox() succeeds through an adapter leaves
\* an address that matches the email-shape predicate, an empty ReadCache, the
\* identity that adapter returned for the call's login (and, for B and C, the
\* credential it issued for that address), that adapter pinned, and the
\* mailboxes-created counter one higher.
C4_SuccessStep ==
    \A t \in Callers :
        (mtask[t].pc # "done" /\ mtask'[t].pc = "done" /\ mtask'[t].how = "adapter") =>
            /\ isValidEmail(email')
            /\ messageCache' = EmptyCache
            /\ messages' = <<>>
            /\ login' = mtask'[t].lg
            /\ email' = Address(login', domain')
            /\ currentProvider' = mtask'[t].by
            /\ (mtask'[t].by = "mailtm" /\ mailtm'.token # NoStr) => mailtm'.token = email'
            /\ (mtask'[t].by = "guerrilla" /\ guerrilla'.sidToken # NoStr) =>
                  guerrilla'.sidToken = email'
            /\ stats'.emailsCreated = stats.emailsCreated + 1

C4_Success == [][C4_SuccessStep]_vars

\* C4 witness: a second mailbox was created through the third adapter.
C4_Witness ==
    \E t \in Callers :
        /\ mtask[t].pc = "done"
        /\ mtask[t].how = "adapter"
        /\ mtask[t].by = "guerrilla"
        /\ stats.emailsCreated = 2
        /\ messageCache = EmptyCache
        /\ isValidEmail(email)

\* C5: a detail that getMessage returns from the ReadCache was fetched for
\* the mailbox that is active when it returns.
C5_HitIsForActiveMailbox ==
    \A g \in ReadIds :
        (gtask[g].pc = "done" /\ ~gtask[g].fetched /\ gtask[g].ret # <<>>) =>
            gtask[g].ret[1].box = email

\* C6 as stated: two listMessages() calls made less than 2000 ms apart
\* return the identical summary sequence: a call that has ended less than
\* 2000 ms after the call of the one that returned before it has the same
\* result.
C6_SameWithinWindow ==
    \A l \in ListIds :
        (ltask[l].pc = "done" /\ prevList.at # 0
           /\ ltask[l].at - prevList.at < CACHE_DURATION
           /\ prevList.at - ltask[l].at < CACHE_DURATION) =>
            ltask[l].ret = prevList.ret

\* C6 amended: a listMessages() call made less than 2000 ms after
\* lastRefresh (the time of the last call that passed this limit) makes no
\* network call and returns the current last-known-good sequence, leaving
\* it and lastRefresh as they are; any other call sets lastRefresh to its
\* time and dispatches one listing call to the pinned adapter exactly when
\* a mailbox is active and that adapter holds its credential.
C6_CallStep ==
    \A l \in ListIds :
        (ltask[l].pc = "idle" /\ ltask'[l].pc # "idle") =>
            IF now - lastRefresh < CACHE_DURATION
            THEN /\ ltask'[l].pc = "done"
                 /\ ltask'[l].ret = messages
                 /\ messages' = messages
                 /\ lastRefresh' = lastRefresh
            ELSE /\ lastRefresh' = now
                 /\ ltask'[l].pc = "fetch" <=>
                       (~NoMailbox(Mgr) /\ HasCredential(currentProvider))
                 /\ ltask'[l].pc = "fetch" =>
                       ltask'[l].via = currentProvider /\ messages' = messages

C6_RateLimitedListing == [][C6_CallStep]_vars

\* C6 witness: 1000 ms after a call that fetched one message, a second call
\* has returned the same sequence from the last-known-good list.
C6_Witness ==
    \E l \in ListIds :
        /\ ltask[l].pc = "done"
        /\ ltask[l].out = "cached"
        /\ ltask[l].at = lastRefresh + TickMs
        /\ prevList.at = lastRefresh
        /\ Len(prevList.ret) = 1
        /\ ltask[l].ret = prevList.ret

\* C7: when the listing call or the normalization of its result fails,
\* listMessages() ends with the last-known-good sequence as its result and
\* leaves that sequence unchanged.
C7_FailedStep ==
    \A l \in ListIds :
        (ltask[l].pc = "fetch" /\ ltask'[l].pc = "done" /\ ltask'[l].out = "failed") =>
            /\ messages' = messages
            /\ ltask'[l].ret = messages

C7_StaleOnFailure == [][C7_FailedStep]_vars

\* C7 witness: a listing failed after an earlier one had fetched a message,
\* and the call has ended with that earlier sequence.
C7_Witness ==
    \E l \in ListIds :
        /\ ltask[l].pc = "done"
        /\ ltask[l].out = "failed"
        /\ Len(messages) = 1
        /\ ltask[l].ret = messages

\* C8 as stated: for one message id and one active mailbox, getMessage makes
\* at most one adapter fetch: no fetch is dispatched for an id for which one
\* was dispatched since the active address last changed.
C8_FetchStep ==
    \A g \in ReadIds :
        (email # NoStr /\ gtask[g].pc = "idle" /\ gtask'[g].pc = "fetch") =>
            gtask'[g].id \notin fetchedFor

C8_CachedStep ==
    \A g \in ReadIds :
        /\ (gtask[g].pc = "idle" /\ gtask'[g].pc # "idle"
               /\ gtask'[g].id \in DOMAIN messageCache) =>
              /\ gtask'[g].pc = "done"
              /\ ~gtask'[g].fetched
              /\ gtask'[g].ret = <<messageCache[gtask'[g].id]>>
              /\ fetchedFor' = fetchedFor
        /\ (gtask[g].pc = "fetch" /\ gtask'[g].pc = "done" /\ gtask'[g].ret # <<>>) =>
              /\ gtask[g].id \in DOMAIN messageCache'
              /\ messageCache'[gtask[g].id] = gtask'[g].ret[1]

C9_ReadStep ==
    /\ \A g \in ReadIds :
          (gtask[g].pc # "done" /\ gtask'[g].pc = "done") =>
              IF gtask'[g].ret = <<>> \/ ~gtask'[g].fetched
              THEN messageCache' = messageCache /\ stats' = stats
              ELSE /\ gtask[g].pc = "fetch"
                   /\ messageCache' = (gtask[g].id :> gtask'[g].ret[1]) @@ messageCache
                   /\ stats'.messagesReceived = stats.messagesReceived + 1
    /\ (stats'.messagesReceived # stats.messagesReceived
           \/ DOMAIN messageCache' \ DOMAIN messageCache # {}) =>
          \E g \in ReadIds :
              /\ gtask[g].pc = "fetch"
              /\ gtask'[g].pc = "done"
              /\ gtask'[g].ret # <<>>

C9_NullLeavesNoTrace == [][C9_ReadStep]_vars

\* C9 witness: on an active mailbox, a getMessage whose fetch came back
\* with nothing has returned null; nothing is cached or counted.
C9_Witness ==
    \E g \in ReadIds :
        /\ gtask[g].pc = "done"
        /\ gtask[g].ret = <<>>
        /\ gtask[g].fetched
        /\ email # NoStr
        /\ stats.messagesReceived = 0
        /\ messageCache = EmptyCache

\* C10 as stated: whenever initialize() returns, the pinned adapter is the
\* first healthy one in the order A, B, C, or A when none is healthy.
C10_PinsFirstHealthyOrA ==
    \A t \in Callers :
        mtask[t].pc = "inited" =>
            LET pr == mtask[t].probes IN
            IF \E i \in 1..Len(pr) : pr[i]
            THEN currentProvider = ProviderOrder[Len(pr)]
            ELSE currentProvider = "secmail"

\* C10 amended: initialize() probes A, B, C in order and stops at the first
\* healthy adapter, which it pins; when none is healthy it pins A only if no
\* adapter was pinned, and otherwise leaves the pinned adapter as it is.
C10_InitializeStep ==
    \A t \in Callers :
        (mtask[t].pc = "health" /\ mtask'[t].pc = "inited") =>
            LET pr == mtask'[t].probes IN
            /\ pr = Append(mtask[t].probes, Last(pr))
            /\ \A i \in 1..(Len(pr) - 1) : ~pr[i]
            /\ IF Last(pr)
               THEN currentProvider' = ProviderOrder[Len(pr)]
               ELSE /\ Len(pr) = Len(ProviderOrder)
                    /\ currentProvider' =
                          IF currentProvider = "none" THEN "secmail" ELSE currentProvider

C10_Initialize == [][C10_InitializeStep]_vars

\* C10 witness: a repeated initialize() found no healthy adapter while the
\* second adapter was pinned, and has returned.
C10_Witness ==
    \E t \in Callers :
        /\ mtask[t].pc = "inited"
        /\ mtask[t].pinned0 = "mailtm"
        /\ mtask[t].probes = <<FALSE, FALSE, FALSE>>
        /\ currentProvider = "mailtm"

\* C11: a request with the default budget (3) whose first two attempts
\* fail with a retryable failure and whose third succeeds returns after
\* exactly two backoff delays, of 1000 ms and then 2000 ms, and three
\* attempts; once it has returned no further attempt is made.
C11_Step ==
    /\ (rq'.pc = "returned" /\ rq'.retries0 = 3 /\ Len(rq'.fails) = 2) =>
          /\ rq'.delays = <<1000, 2000>>
          /\ rq'.attempts = 3
    /\ rq.pc = "returned" => rq'.pc = "idle"

C11_TwoBackoffsThenSuccess == [][C11_Step]_vars

\* C11 witness: the request has returned at its third attempt, after a
\* connection failure and a non-2xx status.
C11_Witness ==
    /\ rq.pc = "returned"
    /\ rq.retries0 = 3
    /\ rq.fails = <<"network", "http">>
    /\ rq.delays = <<1000, 2000>>
    /\ rq.attempts = 3

\* C12 as stated: a request makes at most maxAttempts attempts, and when
\* every attempt fails with a retryable failure it fails to its caller
\* after exactly maxAttempts attempts.
C12_AtMostMaxAttempts ==
    (rq.pc # "idle" /\ rq.retries0 >= 1) =>
        /\ rq.attempts <= rq.retries0
        /\ (rq.pc = "threw" /\ rq.err \in RetryableFailures) =>
              rq.attempts = rq.retries0

\* C12 amended: the third argument counts retries: a request makes at most
\* retries + 1 attempts (4 by default), and when every attempt fails with a
\* retryable failure it fails to its caller after exactly retries + 1
\* attempts and retries backoff delays.
C12_AtMostRetriesPlusOne ==
    rq.pc # "idle" =>
        /\ rq.attempts <= rq.retries0 + 1
        /\ rq.attempts >= Len(rq.fails)
        /\ (rq.pc = "threw" /\ rq.err \in RetryableFailures) =>
              /\ rq.attempts = rq.retries0 + 1
              /\ Len(rq.fails) = rq.attempts
              /\ Len(rq.delays) = rq.retries0
              /\ \A i \in 1..Len(rq.fails) : rq.fails[i] \in RetryableFailures

\* C12 witness: with the default budget, the fourth attempt has failed and
\* the request has failed to its caller.
C12_Witness ==
    /\ rq.pc = "threw"
    /\ rq.retries0 = MAX_RETRIES
    /\ rq.attempts = 4
    /\ rq.err = "network"
    /\ rq.delays = <<1000, 2000, 4000>>

\* C13: once the caller has aborted the signal it passed, the request
\* fails to the caller at once with the abort, and no backoff delay and no
\* further attempt is made.
C13_Step ==
    /\ (~rq.aborted /\ rq'.aborted) => (rq'.pc = "threw" /\ rq'.err = "abort")
    /\ rq.aborted =>
          \/ rq'.pc = "idle"
          \/ rq'.delays = rq.delays /\ rq'.attempts = rq.attempts

C13_AbortPropagates == [][C13_Step]_vars

\* C14: an attempt that runs into the per-attempt timeout counts as a
\* retryable failure: if retries remain, the request sleeps the backoff
\* delay (and then makes another attempt).
C14_Step ==
    (rq.pc = "fetching" /\ rq.retries > 0
       /\ rq'.fails = Append(rq.fails, "abort")) =>
        /\ rq'.pc = "sleeping"
        /\ rq'.delays = Append(rq.delays, BackoffDelay(rq.retries))

C14_TimeoutRetried == [][C14_Step]_vars

\* C15: the timer that startAutoRefresh(callback, interval) arms has the
\* period min(max(interval, 2000), 10000) ms for every interval passed, and
\* 3000 ms when none is passed; it is the only timer armed.
C15_ClampedInterval ==
    /\ \A x \in timers :
          /\ x.every = IF x.asked = NoInterval THEN 3000
                       ELSE MathMin(MathMax(x.asked[1], 2000), 10000)
          /\ x.h = refreshInterval
    /\ Cardinality(timers) <= 1

\* C15 witness: startAutoRefresh(callback, 500) has armed a timer of 2000 ms.
C15_Witness ==
    \E x \in timers : x.asked = <<500>> /\ x.every = 2000 /\ x.h = refreshInterval

\* C16: the step in which refreshEmail() is called clears the timer and empties
\* the listing and the message cache, and changes the address only if the call
\* is over with it; while the call runs nothing but a startAutoRefresh() arms a
\* timer and the address stays; and the step that ends the call makes a new,
\* non-empty address the active one and arms no timer.
C16_Step ==
    \A t \in Callers :
        /\ (mtask[t].pc = "idle" /\ mtask'[t].kind = "refresh") =>
              /\ timers' = {}
              /\ refreshInterval' = 0
              /\ messages' = <<>>
              /\ messageCache' = EmptyCache
              /\ mtask'[t].pc # "done" => UNCHANGED <<email, login, domain>>
        /\ (mtask[t].kind = "refresh" /\ timers = {} /\ timers' # {}) =>
              /\ mtask' = mtask
              /\ refreshInterval' # 0
              /\ timers' = {[h |-> refreshInterval', every |-> PagePollInterval,
                             asked |-> <<PagePollInterval>>]}
              /\ UNCHANGED <<email, login, domain, currentProvider>>
        /\ (mtask'[t].kind = "refresh" /\ mtask[t].pc # "done" /\ mtask'[t].pc = "done") =>
              /\ email' # NoStr
              /\ email' # email
              /\ login' # NoStr
              /\ domain' # NoStr
              /\ timers' \subseteq timers
        /\ (mtask[t].kind = "refresh" /\ mtask[t].pc \notin {"idle", "done"}
              /\ mtask'[t].pc # "done") =>
              UNCHANGED <<email, login, domain>>

C16_RefreshEmail == [][C16_Step]_vars

\* C16 witness: a refreshEmail() called while polling was scheduled has ended
\* with an address, and no polling is scheduled.
C16_Witness ==
    \E t \in Callers :
        /\ mtask[t].kind = "refresh"
        /\ mtask[t].pc = "done"
        /\ mtask[t].timer0 # 0
        /\ timers = {}
        /\ refreshInterval = 0
        /\ email # NoStr

\* C17: a poll whose callback throws leaves the timer armed and the
\* manager's handle to it as they are, so that the timer can fire again.
C17_Step ==
    (Len(cbLog') = Len(cbLog) + 1 /\ Last(cbLog') = "threw") =>
        /\ timers' = timers
        /\ refreshInterval' = refreshInterval

C17_ScheduleSurvivesCallback == [][C17_Step]_vars

\* C17 witness: after a poll whose callback threw, the same timer has
\* fired again and the callback has been called again.
C17_Witness ==
    /\ cbLog = <<"threw", "ok">>
    /\ timers # {}

\* C18: stopAutoRefresh() changes nothing but the timer and the manager's
\* handle to it; with nothing scheduled it changes nothing at all; and
\* applied to its own result it changes nothing more.
C18_StopIsIdempotent ==
    LET m1 == StopAutoRefreshMgr(Mgr)
        t1 == StopAutoRefreshTimers(Mgr, timers)
    IN /\ m1 = [Mgr EXCEPT !.refreshInterval = 0]
       /\ t1 \subseteq timers
       /\ refreshInterval = 0 => (m1 = Mgr /\ t1 = timers)
       /\ StopAutoRefreshMgr(m1) = m1
       /\ StopAutoRefreshTimers(m1, t1) = t1
       /\ \A x \in t1 : x.h # refreshInterval

C18_StopStep ==
    StopAutoRefresh =>
        /\ C18_StopIsIdempotent
        /\ refreshInterval' = 0
        /\ timers' = {}
        /\ UNCHANGED <<currentProvider, email, login, domain, messages,
                       messageCache, lastRefresh, stats>>
        /\ refreshInterval = 0 => UNCHANGED vars

C18_StopAutoRefresh == [][C18_StopStep]_vars

\* C18 witness: polling was scheduled, a poll was delivered, and
\* stopAutoRefresh() has left nothing scheduled.
C18_Witness ==
    /\ cbLog # <<>>
    /\ timers = {}
    /\ refreshInterval = 0
    /\ lastRefresh # 0

\* C19: a record whose subject and mail_subject are each missing, null or
\* empty is normalized to the placeholder subject, in the summary shape and
\* in the detail shape; and the normalized subject of any record is a
\* non-empty string.
C19_PlaceholderSubject ==
    \A i \in 1..Len(nz) :
        /\ (~Truthy(nz[i].raw.subject) /\ ~Truthy(nz[i].raw.mail_subject)) =>
              nz[i].out.subject = UntitledSubject
        /\ nz[i].out.subject.t = "string"
        /\ nz[i].out.subject.s # NoStr

\* C19 witness: a record with a null subject and no mail_subject has been
\* normalized to the detail shape.
C19_Witness ==
    /\ nz # <<>>
    /\ nz[1].shape = "detail"
    /\ nz[1].raw.subject = Null
    /\ nz[1].raw.mail_subject = Undefined
    /\ nz[1].out.subject = UntitledSubject

\* C20 as claimed: the step in which SecMailAPI.createEmail() is called changes
\* the manager and begins the work as a direct createEmail() called in the
\* same state does.
C20_DirectCreateStep ==
    \A t \in Callers :
        (mtask[t].pc = "idle" /\ mtask'[t].kind = "facade") =>
            \E dm \in Elements(SecmailDomains(secmail)) :
                LET r == EnterCreateEmail(Mgr, ThroughFacade(NewTask("facade")), dm)
                IN /\ mtask'[t] = r.t
                   /\ Mgr' = r.m

C20_FacadeIsDirect == [][C20_DirectCreateStep]_vars

\* C20, amended: SecMailAPI.createEmail() begins with initialize() whatever is
\* pinned, which is what a direct createEmail() does only when nothing is
\* pinned; SecMailAPI.refreshEmail() does in its step what a direct
\* refreshEmail() does; when either returns, the facade's email, login and
\* domain are the manager's; and they change at no other step.
C20_Step ==
    /\ \A t \in Callers :
           /\ (mtask[t].pc = "idle" /\ mtask'[t].kind = "facade") =>
                 /\ mtask'[t] = EnterInitialize(ThroughFacade(NewTask("facade")))
                 /\ Mgr' = Mgr
                 /\ currentProvider = "none" =>
                       \E dm \in Elements(SecmailDomains(secmail)) :
                           LET r == EnterCreateEmail(Mgr, ThroughFacade(NewTask("facade")), dm)
                           IN mtask'[t] = r.t /\ Mgr' = r.m
           /\ (mtask[t].pc = "idle" /\ mtask'[t].kind = "refresh" /\ mtask'[t].thru) =>
                 /\ timers' = StopAutoRefreshTimers(Mgr, timers)
                 /\ \E dm \in Elements(SecmailDomains(secmail)) :
                       LET r == EnterCreateEmail(RefreshPrologue(Mgr), NewTask("refresh"), dm)
                       IN mtask'[t] = ThroughFacade(r.t) /\ Mgr' = r.m
           /\ (mtask[t].pc = "done" /\ mtask[t].thru /\ mtask'[t].pc = "idle") =>
                 /\ facade'.email = email'
                 /\ facade'.login = login'
                 /\ facade'.domain = domain'
                 /\ facade'.email # NoStr
    /\ facade' # facade =>
          \E t \in Callers : mtask[t].pc = "done" /\ mtask[t].thru /\ mtask'[t].pc = "idle"

C20_Facade == [][C20_Step]_vars

\* C20 witness: a SecMailAPI.createEmail() called with a provider pinned has
\* probed a provider's health and has ended with a new address, which the
\* facade, still holding the previous one, is about to store.
C20_Witness ==
    \E t \in Callers :
        /\ mtask[t].kind = "facade"
        /\ mtask[t].pc = "done"
        /\ mtask[t].pinned0 # "none"
        /\ mtask[t].probes # <<>>
        /\ facade.email # NoStr
        /\ facade.email # email

\* C21: every step that replaces an active address by another leaves the
\* message cache empty.
C21_Step == (email # NoStr /\ email' # email) => messageCache' = EmptyCache

C21_ReplacementClearsCache == [][C21_Step]_vars

\* C22: the answer of a provider to an attempt of the walk, when its address
\* is rejected and a provider is left to try, leaves the address, the pinned
\* provider and the message cache as they are, turns to the next provider, and
\* increments the provider-switch counter by one, as an attempt that threw does.
C22_RejectedStep ==
    \A t \in Callers :
        (/\ mtask[t].pc = "attempt"
         /\ Len(mtask'[t].outcomes) = Len(mtask[t].outcomes) + 1
         /\ Last(mtask'[t].outcomes) = "invalid"
         /\ NextIndex(Len(mtask'[t].outcomes)) # 0) =>
            /\ UNCHANGED <<email, login, domain, currentProvider, messageCache>>
            /\ mtask'[t].pc = "attempt"
            /\ mtask'[t].idx = NextIndex(Len(mtask'[t].outcomes))
            /\ Last(mtask'[t].attempts) = ProviderOrder[mtask'[t].idx]
            /\ stats' = CountFailure(Mgr).stats

C22_RejectedLikeThrown == [][C22_RejectedStep]_vars

\* C23: whatever retries argument a call was given, the sleep before its i-th
\* retry is RETRY_DELAY * RETRY_MULTIPLIER^(i - 1): 1000 ms before the first
\* retry, and twice the previous sleep before each later one.
C23_BackoffFromPassedBudget ==
    \A i \in 1..Len(rq.delays) :
        /\ rq.delays[i] = RETRY_DELAY * RETRY_MULTIPLIER ^ (i - 1)
        /\ i > 1 => rq.delays[i] = RETRY_MULTIPLIER * rq.delays[i - 1]

\* C24: at most one interval timer is armed, and it is the one the manager
\* holds the handle of; with no handle held, none is armed.
C24_OneSchedule ==
    /\ Cardinality(timers) <= 1
    /\ \A x \in timers : x.h = refreshInterval /\ x.h # 0
    /\ refreshInterval # 0 => \E x \in timers : x.h = refreshInterval

\* C24 witness: a refreshEmail() called while a timer was armed is running,
\* and a startAutoRefresh() called since has armed the one timer there is.
C24_Witness ==
    /\ mtask["page"].kind = "refresh"
    /\ mtask["page"].pc = "attempt"
    /\ mtask["page"].timer0 # 0
    /\ Cardinality(timers) = 1
    /\ refreshInterval # 0

\* C25: a step that clears the timer leaves the polls in flight as they are; a
\* poll in flight changes only by receiving its answer and then by delivering
\* its list to the callback; and a poll begins only while a timer is armed.
C25_Step ==
    \A l \in ListIds :
        /\ (ltask[l].src = "poll" /\ ltask'[l] # ltask[l]) =>
              \/ /\ ltask[l].pc = "fetch"
                 /\ ltask'[l].pc = "done"
                 /\ ltask'[l].src = "poll"
              \/ /\ ltask[l].pc = "done"
                 /\ ltask'[l] = IdleList
                 /\ Len(cbLog') = Len(cbLog) + 1
                 /\ prevList'.ret = ltask[l].ret
        /\ (ltask[l].src # "poll" /\ ltask'[l].src = "poll") =>
              /\ timers # {}
              /\ refreshInterval # 0
        /\ (timers # {} /\ timers' = {} /\ ltask[l].src = "poll") =>
              ltask'[l] = ltask[l]

C25_StopSparesInFlight == [][C25_Step]_vars

\* C25 witness: stopAutoRefresh() was called while a poll's listing request
\* was in flight; the request has been answered with a message, which is
\* about to be delivered to the callback, and no timer is armed.
C25_Witness ==
    \E l \in ListIds :
        /\ ltask[l].src = "poll"
        /\ ltask[l].pc = "done"
        /\ ltask[l].out = "fetched"
        /\ ltask[l].ret # <<>>
        /\ timers = {}
        /\ refreshInterval = 0
        /\ calls = 1

\* C26 as claimed: when the checkHealth() request of getDomains() fails,
\* getDomains() returns the hardcoded list.
C26_FailedStep ==
    \A t \in Callers :
        (mtask[t].domCheck = "none" /\ mtask'[t].domCheck = "failed") =>
            mtask'[t].doms = HardcodedDomains

C26_Step ==
    \A t \in Callers :
        /\ (/\ mtask[t].attempts = <<>>
            /\ mtask'[t].attempts # <<>>
            /\ LengthPositive(secmail.domains)
            /\ now - secmail.lastHealthCheck <= DOMAIN_FRESHNESS) =>
              /\ mtask'[t].domCheck = "skipped"
              /\ mtask'[t].doms = secmail.domains.items
              /\ mtask'[t].outcomes # <<>>
              /\ secmail' = secmail
        /\ (mtask[t].domCheck = "none" /\ mtask'[t].domCheck = "failed") =>
              /\ secmail' = secmail
              /\ mtask'[t].doms = IF LengthPositive(secmail.domains)
                                  THEN secmail.domains.items
                                  ELSE HardcodedDomains

C27_OneRotationAtATime ==
    Cardinality({t \in Callers : mtask[t].pc # "idle"}) <= 1

\* C28: the manager's address, login and domain are unset together, and
\* when set the address is login, "@" and domain put together and is of the
\* shape isValidEmail accepts.
C28_IdentityIsWhole ==
    /\ email = NoStr => (login = NoStr /\ domain = NoStr)
    /\ email # NoStr =>
          /\ login # NoStr
          /\ domain # NoStr
          /\ email = Address(login, domain)
          /\ isValidEmail(email)

\* C28 witness: the countdown's refreshEmail() has ended with an address that
\* guerrillamail issued, after the page's earlier address.
C28_Witness ==
    /\ mtask["timer"].pc = "done"
    /\ mtask["timer"].by = "guerrilla"
    /\ issuer = "guerrilla"
    /\ email = Address(mtask["timer"].lg, GoodDomain)
    /\ login = mtask["timer"].lg

\* C29: whenever the manager has an address, the pinned provider is the one
\* that was pinned when that address was set: the provider that issued it,
\* secmail for a locally generated one.
C29_PinnedIsIssuer ==
    email # NoStr => currentProvider = issuer

\* C30: every summary that getMessages() hands to its caller, the page or the
\* polling callback, was fetched for the mailbox that is active at that
\* moment, never for one that createEmail() or refreshEmail() has replaced.
C30_NoSummaryOfReplacedMailbox ==
    \A l \in ListIds :
        ltask[l].pc = "done" =>
            \A i \in 1..Len(ltask[l].ret) : ltask[l].ret[i].box = email

\* C31: when getMessages() stores a listing it fetched in place of a different
\* one, the call that fetched the listing replaced did not start later: a
\* fetch that started earlier never overwrites the listing of one that
\* started later.
C31_LaterFetchWins ==
    \A l \in ListIds :
        (/\ ltask[l].pc = "done"
         /\ ltask[l].out = "fetched"
         /\ prevList.out = "fetched"
         /\ ltask[l].ret # prevList.ret) =>
            prevList.at <= ltask[l].at

\* C32 as stated: whenever the request of secmail.createEmail() for the domain
\* list fails, createEmail() ends at once with secmail pinned and an address
\* login@domain whose domain is of the list getDomains() returned (the cached
\* or the hardcoded one), and no other provider is tried.
C32_Pinned(t) ==
    /\ mtask'[t].pc = "done"
    /\ mtask'[t].by = "secmail"
    /\ mtask'[t].attempts = <<"secmail">>
    /\ currentProvider' = "secmail"
    /\ login' = mtask[t].lg
    /\ domain' \in Elements(mtask'[t].doms)
    /\ email' = Address(login', domain')
    /\ stats'.providerSwitches = stats.providerSwitches
C32_Unreachable(t) ==
    /\ mtask[t].pc = "attempt"
    /\ mtask[t].idx = 1
    /\ mtask'[t].domCheck = "failed"
C32_UnreachableStep ==
    \A t \in Callers : C32_Unreachable(t) => C32_Pinned(t)
C32_WellFormed(doms) ==
    \A i \in 1..Len(doms) : isValidEmail(Address(LoginOf(1), doms[i]))
C32_AmendedStep ==
    \A t \in Callers :
        C32_Unreachable(t) =>
            /\ secmail' = secmail
            /\ mtask'[t].doms = SecmailDomains(secmail)
            /\ Last(mtask'[t].outcomes) \in {"valid", "invalid"}
            /\ stats'.providerSwitches = stats.providerSwitches
            /\ C32_WellFormed(mtask'[t].doms) => C32_Pinned(t)
            /\ ~C32_WellFormed(mtask'[t].doms) =>
                  /\ Last(mtask'[t].outcomes) = "invalid"
                  /\ mtask'[t].pc = "attempt"
                  /\ Last(mtask'[t].attempts) = "mailtm"
C33_Running(t) ==
    mtask[t].pc \notin {"idle", "done"} /\ mtask[t].kind # "initialize"
C33_Returned(t) ==
    /\ mtask[t].pc = "done"
    /\ email # NoStr
    /\ isValidEmail(email)
    /\ IsPrefixOf(mtask[t].attempts, ProviderOrder)
    /\ mtask[t].how = "synthetic" => Len(mtask[t].attempts) = Len(ProviderOrder)
C33_CreateEmailReturns ==
    \A t \in Callers : C33_Running(t) ~> C33_Returned(t)

\* C33 witness: a call has returned the locally generated address after all
\* three providers failed.
C33_Witness ==
    /\ mtask["timer"].pc = "done"
    /\ mtask["timer"].how = "synthetic"
    /\ mtask["timer"].attempts = ProviderOrder
    /\ email = Address(mtask["timer"].lg, SecmailCom)

====
